---- MODULE Spec2Model ----
(***************************************************************************)
(* Retrieval cascade of src/reasoning_agent.py                             *)
(* (FactualReasoningStrategy.analyze and the searches it calls).           *)
(*                                                                         *)
(* A Python str is a sequence of one-character strings, so that `in`,      *)
(* split(), strip(), lower(), fnmatch and SequenceMatcher are computed on  *)
(* characters.  A float score is an exact rational <<n, d>> with d > 0.    *)
(***************************************************************************)
EXTENDS Integers, Sequences, FiniteSets, TLC

VARIABLES
  corpus,        \* analyze: the local `articles` (the records searched)
  pc,            \* position inside analyze
  query,         \* semantic_analysis.original_query of the call in progress
  ran,           \* the strategies run by the call in progress, in order
  exactScores,   \* EXACT: score of each record, Skipped for a skipped one
  exactBest,     \* EXACT: index of best_match, 0 for None
  relaxedScores, \* RELAXED: score of each record, Skipped for a skipped one
  relaxedMatch,  \* RELAXED: index of the record returned, 0 for None
  fuzzyScores,   \* FUZZY: score of each record, Skipped for a skipped one
  fuzzyMatch,    \* FUZZY: index of the record returned, 0 for None
  result,        \* what analyze returns (or the exception it raises)
  seen,          \* one earlier completed call, remembered: its query and result
  files,         \* the knowledge files on disk (robotics, ethics)
  lpc,           \* position inside _load_knowledge_base
  knowledge_data,\* _load_knowledge_base: the local dict being filled
  up,            \* whether self.knowledge_base has been assigned
  kb,            \* EnhancedReasoningAgent.knowledge_base
  loadedFrom,    \* the files as they were when kb was loaded
  loadedKb,      \* kb as it was when the load assigned it
  probe,         \* one earlier process_query call, remembered
  rpc,           \* the crawler run: "running" or "saved"
  knowledge_base,  \* EnhancedWikipediaCrawler.knowledge_base
  crawled_articles,\* EnhancedWikipediaCrawler.crawled_articles
  cache,         \* the cache index and the cache files, by requested title
  crawl_stats,   \* EnhancedWikipediaCrawler.crawl_stats
  session_contexts,    \* ContextManager.session_contexts, by session id
  conversation_memory, \* EnhancedReasoningAgent.conversation_memory, by session id
  calls,         \* the number of process_query calls made, by session id
  reply,         \* the dict process_query builds and returns (or that it raised)
  conversations, \* server.py: conversations, by session id
  cpc,           \* position inside chat
  chatReply,     \* what the last chat request returned (or that it raised)
  requests       \* the number of chat requests made

analyzeVars == <<corpus, pc, query, ran, exactScores, exactBest, relaxedScores,
                 relaxedMatch, fuzzyScores, fuzzyMatch, result, seen>>

agentVars == <<files, lpc, knowledge_data, up, kb, loadedFrom, loadedKb, probe>>

crawlVars == <<rpc, knowledge_base, crawled_articles, cache, crawl_stats>>

sessionVars == <<session_contexts, conversation_memory, calls, reply>>

serverVars == <<conversations, cpc, chatReply, requests>>

vars == <<analyzeVars, agentVars, crawlVars, sessionVars, serverVars>>

----------------------------------------------------------------------------
(* Characters and str methods                                              *)

LowerLetters == <<"a","b","c","d","e","f","g","h","i","j","k","l","m",
                  "n","o","p","q","r","s","t","u","v","w","x","y","z">>
UpperLetters == <<"A","B","C","D","E","F","G","H","I","J","K","L","M",
                  "N","O","P","Q","R","S","T","U","V","W","X","Y","Z">>

IndexIn(c, letters) ==
  IF \E i \in 1..Len(letters) : letters[i] = c
  THEN CHOOSE i \in 1..Len(letters) : letters[i] = c
  ELSE 0

\* str.lower(), one character
LowerChar(c) ==
  IF IndexIn(c, UpperLetters) > 0 THEN LowerLetters[IndexIn(c, UpperLetters)] ELSE c

\* str.upper(), one character
UpperChar(c) ==
  IF IndexIn(c, LowerLetters) > 0 THEN UpperLetters[IndexIn(c, LowerLetters)] ELSE c

\* the list [f[1], ..., f[n]] of a function on 1..n
List(f) == SubSeq(f, 1, Len(f))

Lower(s) == List([i \in 1..Len(s) |-> LowerChar(s[i])])
Upper(s) == List([i \in 1..Len(s) |-> UpperChar(s[i])])

IsSpace(c) == c = " "

\* s[lo:hi] of Python (0-based, hi exclusive)
Slice(s, lo, hi) == SubSeq(s, lo + 1, hi)

\* `s in t` for two str
IsSubstr(s, t) ==
  \E i \in 0..(Len(t) - Len(s)) : Slice(t, i, i + Len(s)) = s

StartsWith(t, s) == Len(s) <= Len(t) /\ Slice(t, 0, Len(s)) = s
EndsWith(t, s) == Len(s) <= Len(t) /\ Slice(t, Len(t) - Len(s), Len(t)) = s

\* `x in xs` for a list
InList(x, xs) == \E i \in 1..Len(xs) : xs[i] = x

RECURSIVE LStrip(_)
LStrip(s) == IF s # <<>> /\ IsSpace(Head(s)) THEN LStrip(Tail(s)) ELSE s

RECURSIVE RStrip(_)
RStrip(s) ==
  IF s # <<>> /\ IsSpace(s[Len(s)]) THEN RStrip(SubSeq(s, 1, Len(s) - 1)) ELSE s

\* str.strip()
Strip(s) == RStrip(LStrip(s))

\* str.split(): the maximal runs of non-whitespace characters, in order
RECURSIVE SplitFrom(_, _, _)
SplitFrom(s, i, word) ==
  IF i > Len(s)
  THEN IF word = <<>> THEN <<>> ELSE <<word>>
  ELSE IF IsSpace(s[i])
       THEN (IF word = <<>> THEN <<>> ELSE <<word>>) \o SplitFrom(s, i + 1, <<>>)
       ELSE SplitFrom(s, i + 1, Append(word, s[i]))

Split(s) == SplitFrom(s, 1, <<>>)

\* [w for w in xs if len(w) > n]
RECURSIVE LongerThan(_, _)
LongerThan(xs, n) ==
  IF xs = <<>> THEN <<>>
  ELSE (IF Len(Head(xs)) > n THEN <<Head(xs)>> ELSE <<>>) \o LongerThan(Tail(xs), n)

----------------------------------------------------------------------------
(* Float scores as exact rationals                                         *)

RECURSIVE Gcd(_, _)
Gcd(a, b) == IF b = 0 THEN a ELSE Gcd(b, a % b)

Rat(n, d) == LET g == Gcd(n, d) IN IF g = 0 THEN <<0, 1>> ELSE <<n \div g, d \div g>>
RInt(n) == <<n, 1>>
RAdd(a, b) == Rat(a[1] * b[2] + b[1] * a[2], a[2] * b[2])
RMul(a, k) == Rat(a[1] * k, a[2])
RLess(a, b) == a[1] * b[2] < b[1] * a[2]
RLeq(a, b) == a[1] * b[2] <= b[1] * a[2]

----------------------------------------------------------------------------
(* difflib.SequenceMatcher(None, a, b).ratio(), for len(b) < 200 (no       *)
(* autojunk): the matching blocks are found longest first, the earliest in *)
(* a and then the earliest in b among the longest, then to the left and to *)
(* the right of each block.                                                *)

\* length of the common run of a[i:ahi] and b[j:bhi]
RECURSIVE RunLen(_, _, _, _, _, _)
RunLen(a, b, i, j, ahi, bhi) ==
  IF i < ahi /\ j < bhi /\ a[i + 1] = b[j + 1]
  THEN 1 + RunLen(a, b, i + 1, j + 1, ahi, bhi)
  ELSE 0

Max(S) == CHOOSE m \in S : \A x \in S : x <= m
Min(S) == CHOOSE m \in S : \A x \in S : m <= x

\* find_longest_match(alo, ahi, blo, bhi): <<besti, bestj, bestsize>>; a block
\* replaces the best one so far only when it is longer, so the block returned
\* is, among the longest, the one that starts earliest in a and then in b
FindLongestMatch(a, b, alo, ahi, blo, bhi) ==
  LET blocks == {<<p[1], p[2], RunLen(a, b, p[1], p[2], ahi, bhi)>> :
                   p \in {x \in (alo..(ahi - 1)) \X (blo..(bhi - 1)) :
                            a[x[1] + 1] = b[x[2] + 1]}}
  IN IF blocks = {} THEN <<alo, blo, 0>>
     ELSE LET size == Max({m[3] : m \in blocks})
              i == Min({m[1] : m \in {x \in blocks : x[3] = size}})
              j == Min({m[2] : m \in {x \in blocks : x[3] = size /\ x[1] = i}})
          IN <<i, j, size>>

\* sum of the sizes of get_matching_blocks()
RECURSIVE Matches(_, _, _, _, _, _)
Matches(a, b, alo, ahi, blo, bhi) ==
  LET m == FindLongestMatch(a, b, alo, ahi, blo, bhi)
  IN IF m[3] = 0 THEN 0
     ELSE m[3] + Matches(a, b, alo, m[1], blo, m[2])
               + Matches(a, b, m[1] + m[3], ahi, m[2] + m[3], bhi)

\* ratio(): 2.0 * matches / (len(a) + len(b)), 1.0 for two empty strings
Ratio(a, b) ==
  IF Len(a) + Len(b) = 0 THEN RInt(1)
  ELSE Rat(2 * Matches(a, b, 0, Len(a), 0, Len(b)), Len(a) + Len(b))

----------------------------------------------------------------------------
(* Scoring constants of FactualReasoningStrategy                           *)

MinWordLen == 2           \* query words: len(w) > 2
MinPartialLen == 3        \* partial matches: len(word) > 3
ExactPhraseBonus == 50    \* signal 1
ExactTokenBonus == 20     \* signal 2
PartialTokenBonus == 10   \* signal 3
CharacterBoost == 25      \* signal 4, character names
DomainTermBoost == 15     \* signal 4, robotics and AI terms
FranchiseBoost == 20      \* signal 4, franchises
FuzzyGate == 20           \* signal 5 is evaluated while score < 20
FuzzyScale == 15          \* signal 5: ratio * 15
ContentBonus == 3         \* signal 6
WildcardGate == 10        \* signal 7 is evaluated while score < 10
WildcardBonus == 8        \* signal 7
ConfidentThreshold == 10  \* EXACT returns best_match when best_score >= 10
ContentHead == 500        \* _get_domain_boost reads content[:500]
RelaxedWordBonus == 5     \* RELAXED: query word in the title
RelaxedPartialBonus == 3  \* RELAXED: partial match with a title word
RelaxedBar == 2           \* RELAXED: score > 2
FuzzyBar == <<1, 2>>      \* FUZZY: score > 0.5
FuzzySimilarityBar == <<3, 5>>  \* FUZZY: similarity > 0.6

\* _get_domain_boost: characters
Characters == <<
  <<"g","u","n","d","a","m">>,
  <<"d","a","t","a">>,
  <<"c","-","3","p","o">>,
  <<"c","3","p","o">>,
  <<"w","a","l","l","-","e">>,
  <<"w","a","l","l","e">>,
  <<"t","e","r","m","i","n","a","t","o","r">>,
  <<"o","p","t","i","m","u","s">>,
  <<"b","e","n","d","e","r">> >>
\* _get_domain_boost: robotics_terms
RoboticsTerms == <<
  <<"r","o","b","o","t">>,
  <<"r","o","b","o","t","i","c","s">>,
  <<"a","n","d","r","o","i","d">>,
  <<"c","y","b","o","r","g">>,
  <<"a","u","t","o","m","a","t","o","n">>,
  <<"m","e","c","h","a","n","i","c","a","l">>,
  <<"m","e","c","h","a">>,
  <<"m","o","b","i","l","e"," ","s","u","i","t">> >>
\* _get_domain_boost: ai_terms
AiTerms == <<
  <<"a","i">>,
  <<"a","r","t","i","f","i","c","i","a","l">>,
  <<"i","n","t","e","l","l","i","g","e","n","c","e">>,
  <<"n","e","u","r","a","l">>,
  <<"m","a","c","h","i","n","e">>,
  <<"l","e","a","r","n","i","n","g">> >>
\* _get_domain_boost: franchises
Franchises == <<
  <<"s","t","a","r"," ","w","a","r","s">>,
  <<"s","t","a","r"," ","t","r","e","k">>,
  <<"t","r","a","n","s","f","o","r","m","e","r","s">>,
  <<"p","i","x","a","r">>,
  <<"a","n","i","m","e">>,
  <<"m","a","n","g","a">> >>

----------------------------------------------------------------------------
(* Article records: a dict that may lack the 'title' or the 'content' key  *)

Article(t, c) == [hasTitle |-> TRUE, title |-> t, hasContent |-> TRUE, content |-> c]
NoTitle(c) == [hasTitle |-> FALSE, title |-> <<>>, hasContent |-> TRUE, content |-> c]
NoContent(t) == [hasTitle |-> TRUE, title |-> t, hasContent |-> FALSE, content |-> <<>>]

Skipped == <<>>

----------------------------------------------------------------------------
(* FactualReasoningStrategy: the scoring of one record                     *)

\* query_words = [w for w in query_lower.split() if len(w) > 2]
QueryWords(q) == LongerThan(Split(q), MinWordLen)

\* fnmatch.fnmatch(text_word, pattern) for the patterns *w*, w*, *w, where w
\* holds no glob character (*, ?, [)
FnMatch(textWord, kind, w) ==
  CASE kind = 1 -> IsSubstr(w, textWord)
    [] kind = 2 -> StartsWith(textWord, w)
    [] kind = 3 -> EndsWith(textWord, w)

\* _wildcard_match(query_words, text)
WildcardMatch(queryWords, text) ==
  LET textWords == Split(text)
  IN Cardinality({p \in (1..Len(queryWords)) \X (1..3) :
        \E j \in 1..Len(textWords) : FnMatch(textWords[j], p[2], queryWords[p[1]])})

\* _get_domain_boost(query, title, content)
GetDomainBoost(q, title, content) ==
  LET queryLower == Lower(q)
      titleLower == Lower(title)
      contentLower == Lower(Slice(content, 0, IF Len(content) < ContentHead
                                               THEN Len(content) ELSE ContentHead))
      inTitle(term) == IsSubstr(term, queryLower) /\ IsSubstr(term, titleLower)
      inEither(term) == /\ IsSubstr(term, queryLower)
                        /\ (IsSubstr(term, titleLower) \/ IsSubstr(term, contentLower))
  IN CharacterBoost * Cardinality({i \in 1..Len(Characters) : inTitle(Characters[i])})
     + DomainTermBoost * Cardinality({i \in 1..Len(RoboticsTerms) : inEither(RoboticsTerms[i])})
     + DomainTermBoost * Cardinality({i \in 1..Len(AiTerms) : inEither(AiTerms[i])})
     + FranchiseBoost * Cardinality({i \in 1..Len(Franchises) : inEither(Franchises[i])})

\* variant of FuzzyEvaluated: signal 5 is evaluated for every record
FuzzyEvaluatedAlways(upTo4) == TRUE

\* analyze, line 310: `if score < 20`, the score being the sum of signals 1-4
FuzzyEvaluated(upTo4) == upTo4 < FuzzyGate

\* analyze, line 319: `if score < 10`, the score being the sum of signals 1-6
WildcardEvaluated(upTo6) == RLess(upTo6, RInt(WildcardGate))

\* analyze, lines 286-321: the seven signals of one record that has a title
\* and a content, for the lowercased query
ExactSignals(queryLower, a) ==
  LET titleLower == Lower(a.title)
      contentLower == Lower(a.content)
      queryWords == QueryWords(queryLower)
      titleWords == Split(titleLower)
      pairs == (1..Len(queryWords)) \X (1..Len(titleWords))
      phrase == IF IsSubstr(Strip(queryLower), titleLower) THEN ExactPhraseBonus ELSE 0
      token == ExactTokenBonus
                 * Cardinality({i \in 1..Len(queryWords) : InList(queryWords[i], titleWords)})
      partial == PartialTokenBonus
                 * Cardinality({p \in pairs :
                      /\ Len(queryWords[p[1]]) > MinPartialLen
                      /\ \/ IsSubstr(queryWords[p[1]], titleWords[p[2]])
                         \/ IsSubstr(titleWords[p[2]], queryWords[p[1]])})
      domain == GetDomainBoost(queryLower, titleLower, contentLower)
      upTo4 == phrase + token + partial + domain
      fuzzy == IF FuzzyEvaluated(upTo4)
               THEN RMul(Ratio(queryLower, titleLower), FuzzyScale)
               ELSE RInt(0)
      content == ContentBonus
                 * Cardinality({i \in 1..Len(queryWords) : IsSubstr(queryWords[i], contentLower)})
      upTo6 == RAdd(RInt(upTo4 + content), fuzzy)
      wildcard == IF WildcardEvaluated(upTo6)
                  THEN WildcardBonus * WildcardMatch(queryWords, titleLower)
                  ELSE 0
  IN [phrase |-> phrase, token |-> token, partial |-> partial, domain |-> domain,
      fuzzy |-> fuzzy, content |-> content, wildcard |-> wildcard]

\* the score of one record in the EXACT loop
ExactScore(queryLower, a) ==
  LET s == ExactSignals(queryLower, a)
  IN RAdd(RInt(s.phrase + s.token + s.partial + s.domain + s.content + s.wildcard),
          s.fuzzy)

\* _relaxed_search: the score of one record that has a title
RelaxedScore(q, a) ==
  LET titleLower == Lower(a.title)
      queryWords == LongerThan(Split(q), MinWordLen)
      titleWords == Split(titleLower)
      pairs == (1..Len(queryWords)) \X (1..Len(titleWords))
  IN RelaxedWordBonus
       * Cardinality({i \in 1..Len(queryWords) : IsSubstr(queryWords[i], titleLower)})
     + RelaxedPartialBonus
       * Cardinality({p \in pairs :
            /\ Len(queryWords[p[1]]) > MinPartialLen
            /\ Len(titleWords[p[2]]) > MinPartialLen
            /\ \/ IsSubstr(queryWords[p[1]], titleWords[p[2]])
               \/ IsSubstr(titleWords[p[2]], queryWords[p[1]])})

\* variant of FuzzyPairScore: the similarity is added without the 0.6 bar
FuzzyPairScoreNoBar(queryWord, titleWord) ==
  IF Len(queryWord) > MinWordLen
  THEN IF IsSubstr(queryWord, titleWord) \/ IsSubstr(titleWord, queryWord)
       THEN RInt(1)
       ELSE IF Len(queryWord) > MinPartialLen /\ Len(titleWord) > MinPartialLen
            THEN Ratio(queryWord, titleWord)
            ELSE RInt(0)
  ELSE RInt(0)

\* _fuzzy_fallback_search: what one (query word, title word) pair adds
FuzzyPairScore(queryWord, titleWord) ==
  IF Len(queryWord) > MinWordLen
  THEN IF IsSubstr(queryWord, titleWord) \/ IsSubstr(titleWord, queryWord)
       THEN RInt(1)
       ELSE IF Len(queryWord) > MinPartialLen /\ Len(titleWord) > MinPartialLen
            THEN LET similarity == Ratio(queryWord, titleWord)
                 IN IF RLess(FuzzySimilarityBar, similarity) THEN similarity ELSE RInt(0)
            ELSE RInt(0)
  ELSE RInt(0)

RECURSIVE SumPairs(_, _, _, _)
SumPairs(queryWords, titleWords, i, j) ==
  IF i > Len(queryWords) THEN RInt(0)
  ELSE IF j > Len(titleWords) THEN SumPairs(queryWords, titleWords, i + 1, 1)
  ELSE RAdd(FuzzyPairScore(queryWords[i], titleWords[j]),
            SumPairs(queryWords, titleWords, i, j + 1))

\* _fuzzy_fallback_search: the score of one record that has a title
FuzzyScore(q, a) == SumPairs(Split(q), Split(Lower(a.title)), 1, 1)

----------------------------------------------------------------------------
(* SemanticAnalyzer._extract_entities and the fallbacks of analyze         *)

\* entity_patterns in dict order; `bounded` marks the pattern \bai\b
EntityPatterns == <<
  [text |-> <<"r","o","b","o","t">>, bounded |-> FALSE],
  [text |-> <<"a","n","d","r","o","i","d">>, bounded |-> FALSE],
  [text |-> <<"c","y","b","o","r","g">>, bounded |-> FALSE],
  [text |-> <<"a","u","t","o","m","a","t","o","n">>, bounded |-> FALSE],
  [text |-> <<"g","u","n","d","a","m">>, bounded |-> FALSE],
  [text |-> <<"m","e","c","h","a">>, bounded |-> FALSE],
  [text |-> <<"m","o","b","i","l","e"," ","s","u","i","t">>, bounded |-> FALSE],
  [text |-> <<"a","i">>, bounded |-> TRUE],
  [text |-> <<"a","r","t","i","f","i","c","i","a","l"," ","i","n","t","e","l","l","i","g","e","n","c","e">>, bounded |-> FALSE],
  [text |-> <<"m","a","c","h","i","n","e"," ","l","e","a","r","n","i","n","g">>, bounded |-> FALSE],
  [text |-> <<"n","e","u","r","a","l"," ","n","e","t","w","o","r","k">>, bounded |-> FALSE],
  [text |-> <<"d","a","t","a">>, bounded |-> FALSE],
  [text |-> <<"c","-","3","p","o">>, bounded |-> FALSE],
  [text |-> <<"r","2","-","d","2">>, bounded |-> FALSE],
  [text |-> <<"w","a","l","l","-","e">>, bounded |-> FALSE],
  [text |-> <<"t","e","r","m","i","n","a","t","o","r">>, bounded |-> FALSE],
  [text |-> <<"o","p","t","i","m","u","s">>, bounded |-> FALSE],
  [text |-> <<"g","u","n","d","a","m">>, bounded |-> FALSE],
  [text |-> <<"s","e","n","s","o","r">>, bounded |-> FALSE],
  [text |-> <<"a","c","t","u","a","t","o","r">>, bounded |-> FALSE],
  [text |-> <<"p","r","o","c","e","s","s","o","r">>, bounded |-> FALSE],
  [text |-> <<"a","l","g","o","r","i","t","h","m">>, bounded |-> FALSE],
  [text |-> <<"s","y","s","t","e","m">>, bounded |-> FALSE] >>

IsWordChar(c) ==
  \/ IndexIn(c, LowerLetters) > 0
  \/ IndexIn(c, UpperLetters) > 0
  \/ c \in {"0", "1", "2", "3", "4", "5", "6", "7", "8", "9", "_"}

\* re.search(pattern, s) for a literal pattern, with or without \b on both sides
Matches_re(p, s) ==
  \E i \in 0..(Len(s) - Len(p.text)) :
    /\ Slice(s, i, i + Len(p.text)) = p.text
    /\ p.bounded =>
         /\ (i = 0 \/ ~IsWordChar(s[i]))
         /\ (i + Len(p.text) = Len(s) \/ ~IsWordChar(s[i + Len(p.text) + 1]))

Technology == <<"t","e","c","h","n","o","l","o","g","y">>

\* analyze: main_entity = entities[0] if entities else "technology"
MainEntity(q) ==
  LET queryLower == Lower(q)
      hits == {i \in 1..Len(EntityPatterns) : Matches_re(EntityPatterns[i], queryLower)}
  IN IF hits = {} THEN Technology
     ELSE EntityPatterns[CHOOSE i \in hits : \A j \in hits : i <= j].text

\* analyze, lines 343-447: the hardcoded response chosen, "" for none
HardcodedTemplate(q) ==
  LET queryLower == Lower(q)
      mainEntity == Lower(MainEntity(q))
      has(w) == IsSubstr(w, queryLower)
  IN IF has(<<"g","u","n","d","a","m">>) \/ has(<<"m","e","c","h","a">>) \/ has(<<"m","o","b","i","l","e"," ","s","u","i","t">>)
     THEN "GUNDAM"
     ELSE IF IsSubstr(<<"d","a","t","a">>, mainEntity) /\ (has(<<"s","t","a","r"," ","t","r","e","k">>) \/ has(<<"a","n","d","r","o","i","d">>))
     THEN "DATA"
     ELSE IF \/ IsSubstr(<<"c","-","3","p","o">>, mainEntity)
             \/ IsSubstr(<<"c","3","p","o">>, mainEntity)
             \/ (has(<<"r","o","b","o","t">>) /\ has(<<"s","t","a","r"," ","w","a","r","s">>))
     THEN "C-3PO"
     ELSE IF IsSubstr(<<"w","a","l","l","-","e">>, mainEntity) \/ IsSubstr(<<"w","a","l","l","e">>, mainEntity)
     THEN "WALL-E"
     ELSE ""

\* analyze, lines 455-477: humor category, its keywords, the number of responses
HumorCategories == <<
  [name |-> "robot", keywords |-> <<<<"r","o","b","o","t">>, <<"r","o","b","o","t","i","c","s">>>>, responses |-> 3],
  [name |-> "ai", keywords |-> <<<<"a","i">>, <<"a","r","t","i","f","i","c","i","a","l">>, <<"i","n","t","e","l","l","i","g","e","n","c","e">>>>, responses |-> 3],
  [name |-> "android", keywords |-> <<<<"a","n","d","r","o","i","d">>, <<"c","y","b","o","r","g">>>>, responses |-> 2] >>

\* the index of the first humor category a keyword of which is in the query, 0 for None
HumorCategory(q) ==
  LET queryLower == Lower(q)
      hits == {i \in 1..Len(HumorCategories) :
                 \E k \in 1..Len(HumorCategories[i].keywords) :
                   IsSubstr(HumorCategories[i].keywords[k], queryLower)}
  IN IF hits = {} THEN 0 ELSE CHOOSE i \in hits : \A j \in hits : i <= j

----------------------------------------------------------------------------
(* SemanticAnalyzer._classify_intent and the strategies of ReasoningPipeline *)

\* intent_patterns in dict order; `wordEnd` marks the pattern vs\b
IntentPatterns == <<
  [intent |-> "comparative", text |-> <<"v","s">>, wordEnd |-> TRUE],
  [intent |-> "comparative", text |-> <<"v","e","r","s","u","s">>, wordEnd |-> FALSE],
  [intent |-> "comparative", text |-> <<"c","o","m","p","a","r","e">>, wordEnd |-> FALSE],
  [intent |-> "comparative", text |-> <<"d","i","f","f","e","r","e","n","c","e">>, wordEnd |-> FALSE],
  [intent |-> "comparative", text |-> <<"b","e","t","t","e","r"," ","t","h","a","n">>, wordEnd |-> FALSE],
  [intent |-> "analytical", text |-> <<"h","o","w"," ","d","o","e","s">>, wordEnd |-> FALSE],
  [intent |-> "analytical", text |-> <<"w","h","y">>, wordEnd |-> FALSE],
  [intent |-> "analytical", text |-> <<"a","n","a","l","y","z","e">>, wordEnd |-> FALSE],
  [intent |-> "analytical", text |-> <<"e","x","p","l","a","i","n">>, wordEnd |-> FALSE],
  [intent |-> "analytical", text |-> <<"m","e","c","h","a","n","i","s","m">>, wordEnd |-> FALSE],
  [intent |-> "followup", text |-> <<"t","e","l","l"," ","m","e"," ","m","o","r","e">>, wordEnd |-> FALSE],
  [intent |-> "followup", text |-> <<"e","l","a","b","o","r","a","t","e">>, wordEnd |-> FALSE],
  [intent |-> "followup", text |-> <<"e","x","p","l","a","i","n"," ","f","u","r","t","h","e","r">>, wordEnd |-> FALSE],
  [intent |-> "followup", text |-> <<"m","o","r","e"," ","d","e","t","a","i","l","s">>, wordEnd |-> FALSE],
  [intent |-> "synthetic", text |-> <<"c","r","e","a","t","e">>, wordEnd |-> FALSE],
  [intent |-> "synthetic", text |-> <<"d","e","s","i","g","n">>, wordEnd |-> FALSE],
  [intent |-> "synthetic", text |-> <<"b","u","i","l","d">>, wordEnd |-> FALSE],
  [intent |-> "synthetic", text |-> <<"d","e","v","e","l","o","p">>, wordEnd |-> FALSE],
  [intent |-> "synthetic", text |-> <<"i","m","p","l","e","m","e","n","t">>, wordEnd |-> FALSE] >>

\* re.search(pattern, s) for a literal pattern, with or without \b at its end
MatchesIntent(p, s) ==
  \E i \in 0..(Len(s) - Len(p.text)) :
    /\ Slice(s, i, i + Len(p.text)) = p.text
    /\ p.wordEnd =>
         (i + Len(p.text) = Len(s) \/ ~IsWordChar(s[i + Len(p.text) + 1]))

\* _classify_intent: the intent of the first pattern found in the query
ClassifyIntent(q) ==
  LET queryLower == Lower(q)
      hits == {i \in 1..Len(IntentPatterns) : MatchesIntent(IntentPatterns[i], queryLower)}
  IN IF hits = {} THEN "factual"
     ELSE IntentPatterns[CHOOSE i \in hits : \A j \in hits : i <= j].intent

\* ReasoningPipeline.__init__: self.strategies
Strategies(intent) ==
  CASE intent = "factual" -> "Factual"
    [] intent = "comparative" -> "Comparative"
    [] intent = "analytical" -> "Analytical"
    [] intent = "synthetic" -> "Analytical"
    [] intent = "followup" -> "Factual"

----------------------------------------------------------------------------
(* Inputs                                                                  *)

MaxCorpus == 2   \* longest corpus built from the pool

\* the records a corpus is built from
ArticlePool == <<
  Article(<<"R","o","b","o","t">>, <<"a"," ","r","o","b","o","t">>),        \* "Robot" / "a robot"
  Article(<<"a","a","a","a"," ","b","b","b","b">>, <<>>),         \* "aaaa bbbb" / ""
  Article(<<"b","b","b","b"," ","a","a","a","a">>, <<>>),         \* "bbbb aaaa" / ""
  Article(<<"a","b","c","e">>, <<"x">>),          \* "abce" / "x"
  Article(<<"a","b"," ","x","d","a","t","x">>, <<>>),         \* "ab xdatx" / ""
  NoTitle(<<"r","o","b","o","t">>),                  \* no 'title' key
  NoContent(<<"R","o","b","o","t">>) >>              \* "Robot", no 'content' key

\* one record without a title and nine valid records
TenRecords ==
  <<ArticlePool[6]>> \o [i \in 1..9 |-> ArticlePool[((i - 1) % 4) + 1]]

RECURSIVE SeqsUpTo(_, _)
SeqsUpTo(S, n) ==
  IF n = 0 THEN {<<>>}
  ELSE LET shorter == SeqsUpTo(S, n - 1)
       IN shorter \cup {Append(s, x) : s \in shorter, x \in S}

Corpora ==
  SeqsUpTo({ArticlePool[i] : i \in 1..Len(ArticlePool)}, MaxCorpus) \cup {TenRecords}

\* "dat " followed by 37 times "z": 41 characters
LongQuery == <<"d","a","t"," ">> \o [i \in 1..37 |-> "z"]

Queries == {
  <<"R","o","b","o","t">>,         \* "Robot"
  <<"a","a","a"," ","b","b","b">>,        \* "aaa bbb"
  <<"a","b","c","d"," ","x","y">>,        \* "abcd xy"
  LongQuery,
  <<>>,            \* ""
  <<"g","u","n","d","a","m">>,        \* "gundam"
  <<"y","d","a","t","z"," ">>,         \* "ydatz "
  <<"a","b">> }            \* "ab"

\* 500 times "z" followed by " robot": the term lies beyond content[:500]
LongContent == [i \in 1..500 |-> "z"] \o <<" ","r","o","b","o","t">>

\* the records the domain boost is computed on
BoostPool == <<
  Article(<<"A","b","c","e">>, <<"d","a","t","a"," ","x">>),    \* "Abce" / "data x"
  ArticlePool[1],                                               \* "Robot" / "a robot"
  Article(<<"D","a","t","a">>, <<>>),                           \* "Data" / ""
  Article(<<"a","b","c","e">>, LongContent),                    \* "abce" / "zzz... robot"
  Article(<<"a","n","i","m","e">>, <<>>) >>                     \* "anime" / ""

BoostCorpora == SeqsUpTo({BoostPool[i] : i \in 1..Len(BoostPool)}, 2)

BoostQueries == {
  <<"d","a","t","a">>,            \* "data"
  <<"r","o","b","o","t">>,        \* "robot"
  <<"a","n","i","m","e">>,        \* "anime"
  <<"a","n","d","r","o","i","d">> }  \* "android"

----------------------------------------------------------------------------
(* The knowledge files and EnhancedReasoningAgent.knowledge_base           *)

\* a knowledge file as os.path.exists, open and json.load find it
Missing == [shape |-> "missing", records |-> <<>>]   \* no path exists
Invalid == [shape |-> "invalid", records |-> <<>>]   \* open or json.load raises
Scalar == [shape |-> "scalar", records |-> <<>>]     \* JSON, neither list nor dict
FlatList(r) == [shape |-> "list", records |-> r]     \* [ ... ]
Wrapper(r) == [shape |-> "wrapper", records |-> r]   \* {"articles": [ ... ]}
Keyed(r) == [shape |-> "keyed", records |-> r]       \* {"entries": [ ... ]}

\* a dict: 'articles', one other key holding a list, the keys of the built-in
\* fallback, and '_sources_found'
EmptyDict ==
  [hasArticles |-> FALSE, articles |-> <<>>, hasEntries |-> FALSE, entries |-> <<>>,
   builtin |-> FALSE, hasSources |-> FALSE, sources |-> 0]

\* _load_knowledge_base, lines 878-901: the fallback knowledge base, whose
\* values are dicts ("robot", "ai", "android", "character_data")
FallbackKnowledge == [EmptyDict EXCEPT !.builtin = TRUE]

\* the keys of character_data in the fallback knowledge base
CharacterDataKeys == {
  <<"d","a","t","a">>,
  <<"c","-","3","p","o">>,
  <<"w","a","l","l","-","e">>,
  <<"t","e","r","m","i","n","a","t","o","r">> }

\* the entity categories that are keys of the fallback knowledge base
FallbackCategories == {"robot", "ai"}

\* _load_knowledge_base, lines 829-838 and 850-857: one file merged into
\* knowledge_data (dict.update replaces a key, list.extend appends)
MergeSource(kd, src) ==
  CASE src.shape = "list" ->
         [kd EXCEPT !.hasArticles = TRUE, !.articles = kd.articles \o src.records]
    [] src.shape = "wrapper" ->
         [kd EXCEPT !.hasArticles = TRUE, !.articles = src.records]
    [] src.shape = "keyed" ->
         [kd EXCEPT !.hasEntries = TRUE, !.entries = src.records]
    [] OTHER -> kd

\* open or json.load raises, caught by `except Exception` at line 865
Raises(src) == src.shape = "invalid"

\* `if knowledge_data:` at line 862
Truthy(kd) == kd.hasArticles \/ kd.hasEntries

\* _load_knowledge_base as a function of the files
LoadKnowledgeBase(f) ==
  IF Raises(f.robotics) \/ Raises(f.ethics) THEN FallbackKnowledge
  ELSE LET kd == MergeSource(MergeSource(EmptyDict, f.robotics), f.ethics)
       IN IF Truthy(kd) THEN kd ELSE FallbackKnowledge

\* analyze, lines 262-272: the local `articles` of a dict knowledge base
AnalyzeArticles(knowledge) ==
  IF knowledge.hasArticles THEN knowledge.articles
  ELSE IF knowledge.hasEntries THEN knowledge.entries
  ELSE <<>>

\* _extract_entities: the category of entity_patterns[i]
EntityCategory(i) ==
  IF i <= 7 THEN "robot"
  ELSE IF i <= 11 THEN "ai"
  ELSE IF i <= 18 THEN "character"
  ELSE "technology"

\* re.finditer(pattern, s): the number of non-overlapping matches from offset i
RECURSIVE Occurrences(_, _, _)
Occurrences(p, s, i) ==
  IF i + Len(p.text) > Len(s) THEN 0
  ELSE IF /\ Slice(s, i, i + Len(p.text)) = p.text
          /\ p.bounded =>
               /\ (i = 0 \/ ~IsWordChar(s[i]))
               /\ (i + Len(p.text) = Len(s) \/ ~IsWordChar(s[i + Len(p.text) + 1]))
       THEN 1 + Occurrences(p, s, i + Len(p.text))
       ELSE Occurrences(p, s, i + 1)

\* _retrieve_knowledge, lines 690-704: what one entity adds to found_sources
EntitySources(text, category, knowledge) ==
  LET articles == IF knowledge.hasArticles THEN knowledge.articles ELSE <<>>
      inArticle == \E k \in 1..Len(articles) :
                     /\ articles[k].hasTitle
                     /\ \/ IsSubstr(text, Lower(articles[k].title))
                        \/ IsSubstr(text, Lower(articles[k].content))
      inDict == knowledge.builtin /\ (text \in CharacterDataKeys \/ category \in FallbackCategories)
  IN (IF inArticle THEN 1 ELSE 0) + (IF inDict THEN 1 ELSE 0)

\* _retrieve_knowledge, lines 677-712: found_sources over the entities of the query
RECURSIVE FoundSources(_, _, _)
FoundSources(queryLower, knowledge, i) ==
  IF i > Len(EntityPatterns) THEN 0
  ELSE Occurrences(EntityPatterns[i], queryLower, 0)
         * EntitySources(EntityPatterns[i].text, EntityCategory(i), knowledge)
       + FoundSources(queryLower, knowledge, i + 1)

\* _retrieve_knowledge, lines 707-708: relevant_knowledge is knowledge_base itself
WithSourcesFound(knowledge, n) == [knowledge EXCEPT !.hasSources = TRUE, !.sources = n]

\* the records of the files of the model
RoboticsRecords == <<ArticlePool[1]>>
EthicsRecords == <<ArticlePool[4]>>

RoboticsSources ==
  {Missing, Invalid, FlatList(RoboticsRecords), Wrapper(RoboticsRecords), Keyed(RoboticsRecords)}

EthicsSources ==
  {Missing, Invalid, Scalar, FlatList(EthicsRecords), Wrapper(EthicsRecords)}

FileStates == [robotics : RoboticsSources, ethics : EthicsSources]

NoFiles == [robotics |-> Missing, ethics |-> Missing]

\* the files that are loaded again
ReloadFiles == {
  NoFiles,
  [robotics |-> Wrapper(RoboticsRecords), ethics |-> Missing],
  [robotics |-> FlatList(RoboticsRecords), ethics |-> FlatList(EthicsRecords)] }

\* the queries sent to process_query
AgentQueries == {
  <<"R","o","b","o","t">>,         \* "Robot"
  <<"a","b","c","d"," ","x","y">> }        \* "abcd xy"

\* the knowledge files of the agent whose sessions are followed: one
\* article, or one record without content
SessionFiles == {
  [robotics |-> FlatList(<<ArticlePool[1]>>), ethics |-> Missing],
  [robotics |-> FlatList(<<ArticlePool[7]>>), ethics |-> Missing] }

\* queries of factual, analytical and comparative intent
SessionQueries == {
  <<"R","o","b","o","t">>,                        \* "Robot"
  <<"a","b","c","d"," ","x","y">>,                \* "abcd xy"
  <<"w","h","y"," ","r","o","b","o","t">>,        \* "why robot"
  <<"r","o","b","o","t"," ","v","s">> }           \* "robot vs"

----------------------------------------------------------------------------
(* src/enhanced_wikipedia_crawler.py: records, cache and inputs            *)

\* an article_data dict of the crawler: 'title', 'content' and 'url'
Entry(t, c, u) ==
  [hasTitle |-> TRUE, title |-> t, hasContent |-> TRUE, content |-> c, url |-> u]

\* an item of the external ethics file; url = "" stands for no 'url' key
Item(hasTitle, t, hasContent, c, u) ==
  [hasTitle |-> hasTitle, title |-> t, hasContent |-> hasContent, content |-> c, url |-> u]

\* ' '.join(words)
RECURSIVE JoinWords(_)
JoinWords(words) ==
  IF words = <<>> THEN <<>>
  ELSE IF Len(words) = 1 THEN words[1]
  ELSE words[1] \o <<" ">> \o JoinWords(Tail(words))

\* clean_content, lines 112-169, on text made of letters and blanks: runs of
\* blanks become one blank and the ends are stripped
CleanContent(content) == JoinWords(Split(content))

\* crawl_article: f"https://en.wikipedia.org/wiki/{quote(title)}"
WikiUrl(title) == <<"w","i","k","i","/">> \o title

\* load_external_ethics, line 1095: item.get('url', 'unknown')
Unknown == <<"u","n","k","n","o","w","n">>

EthicsContentLimit == 50000   \* load_external_ethics: item.get('content', '')[:50000]

\* the cache of one requested title: no entry, a valid entry or an expired one
NoEntry == [state |-> "none", hasTitle |-> FALSE, title |-> <<>>, content |-> <<>>]

NoStats == [articles_crawled |-> 0, total_words |-> 0, cache_hits |-> 0]

\* the titles crawl_article is called with
RequestTitles == {ArticlePool[1].title}

NoCache == [t \in RequestTitles |-> NoEntry]

\* what the Wikipedia API answers for a title: a status other than 200, or
\* a page with summary_data['title'] and the text of the page
Responses(title) == {
  [ok |-> FALSE, hasTitle |-> FALSE, title |-> <<>>, text |-> <<>>],
  [ok |-> TRUE, hasTitle |-> TRUE, title |-> title, text |-> <<" ","x">>],
  [ok |-> TRUE, hasTitle |-> TRUE, title |-> <<>>, text |-> <<"x">>],
  [ok |-> TRUE, hasTitle |-> FALSE, title |-> <<>>, text |-> <<"x">>],
  [ok |-> TRUE, hasTitle |-> TRUE, title |-> title, text |-> <<>>] }

MaxItems == 2      \* longest external ethics file
MaxArticles == 3   \* longest knowledge base of the crawler

\* the items an external ethics file is built from
ItemPool == {
  Item(FALSE, <<>>, TRUE, <<"x">>, <<>>),                   \* no 'title'
  Item(TRUE, <<>>, TRUE, <<"x">>, <<>>),                    \* title ""
  Item(TRUE, <<"a","b","c","e">>, TRUE, <<"x"," "," ","y">>, <<>>),     \* "abce" / "x  y"
  Item(TRUE, <<" ","R","o","b","o","t">>, FALSE, <<>>, <<"u">>) }   \* " Robot", url "u"

CrawlEthicsFiles ==
  {Missing, Wrapper(<<>>)} \cup {FlatList(items) : items \in SeqsUpTo(ItemPool, MaxItems)}

----------------------------------------------------------------------------
(* FactualReasoningStrategy.analyze as a state machine over one query      *)

NoResult ==
  [kind |-> "none", strategy |-> "none", idx |-> 0, head |-> <<>>, body |-> <<>>,
   template |-> "", category |-> "", choice |-> 0, entity |-> <<>>, exc |-> "",
   terms |-> <<>>, info |-> <<>>]

\* return f"{match['title'].upper()}\n\n{match['content']}"; the subscript
\* raises KeyError when the record has no 'content'
ArticleResult(strategy, i) ==
  IF corpus[i].hasContent
  THEN [NoResult EXCEPT !.kind = "article", !.strategy = strategy, !.idx = i,
                        !.head = Upper(corpus[i].title), !.body = corpus[i].content]
  ELSE [NoResult EXCEPT !.kind = "error", !.strategy = strategy, !.idx = i,
                        !.exc = "KeyError"]

KeyError(strategy, i) ==
  [NoResult EXCEPT !.kind = "error", !.strategy = strategy, !.idx = i, !.exc = "KeyError"]

NotSeen == [set |-> FALSE, q |-> <<>>, r |-> NoResult]

\* process_query(query, session_id="default"); ChatRequest.session_id = "web-session"
SessionIds == {"default", "web-session"}

\* a session id that is not a key of session_contexts; a SessionContext
NoContext == [exists |-> FALSE, conversation_history |-> <<>>, reasoning_history |-> <<>>]

\* the content of a ReasoningStep: the analysis, the number of sources, the
\* validation score or the topics of the context
NoStepContent == [analysis |-> NoResult, sources |-> 0, score |-> <<0, 1>>, topics |-> <<>>]

\* `set` is FALSE until the call has returned or raised; `sources` is the
\* _sources_found read by execute_reasoning at line 658
NoReply ==
  [set |-> FALSE, raised |-> FALSE, session_id |-> "default", query |-> <<>>,
   sources |-> 0, response |-> NoStepContent, steps |-> <<>>, confidence |-> <<0, 1>>,
   intent |-> "", session_context |-> 0, conversation_turn |-> 0]

\* `kind` tells the response_text of chat: "generated" by process_query,
\* the "apology" for an empty response, "builtin" for generate_response, or
\* the "refusal"
NoChatReply == [set |-> FALSE, raised |-> FALSE, session |-> "web-session", message |-> <<>>,
                kind |-> "none", response |-> NoStepContent]

NoProbe == [set |-> FALSE, fresh |-> FALSE, q |-> <<>>, r |-> NoResult, from |-> NoFiles]

\* _extract_entities: the texts of the entities, in the order they are found
RECURSIVE EntityTexts(_, _)
EntityTexts(queryLower, i) ==
  IF i > Len(EntityPatterns) THEN <<>>
  ELSE [k \in 1..Occurrences(EntityPatterns[i], queryLower, 0) |-> EntityPatterns[i].text]
         \o EntityTexts(queryLower, i + 1)

\* AnalyticalReasoningStrategy.analyze, lines 606-637: the breakdown when
\* "how" is in the query, the one-line examination otherwise
AnalyticalAnalyze(q) ==
  [NoResult EXCEPT !.kind = "analytical",
                   !.template = IF IsSubstr(<<"h","o","w">>, Lower(q))
                                THEN "BREAKDOWN" ELSE "EXAMINATION",
                   !.entity = MainEntity(q)]

\* s.find(sub): the offset of the first occurrence, -1 for none
Find(s, sub) ==
  LET at == {i \in 0..(Len(s) - Len(sub)) : Slice(s, i, i + Len(sub)) = sub}
  IN IF at = {} THEN -1 ELSE Min(at)

\* s.split(sep)
RECURSIVE SplitOn(_, _)
SplitOn(s, sep) ==
  LET i == Find(s, sep)
  IN IF i = -1 THEN <<s>>
     ELSE <<Slice(s, 0, i)>> \o SplitOn(Slice(s, i + Len(sep), Len(s)), sep)

\* [p.strip() for p in parts if p.strip()]
RECURSIVE StripNonEmpty(_)
StripNonEmpty(parts) ==
  IF parts = <<>> THEN <<>>
  ELSE (IF Strip(Head(parts)) # <<>> THEN <<Strip(Head(parts))>> ELSE <<>>)
         \o StripNonEmpty(Tail(parts))

\* ComparativeReasoningStrategy.analyze, lines 552-565: comparison_terms
ComparisonTerms(topic) ==
  LET topicLower == Lower(topic)
      compare == <<"c","o","m","p","a","r","e">>
  IN IF IsSubstr(<<"v","s">>, topicLower)
     THEN StripNonEmpty(SplitOn(topicLower, <<" ","v","s"," ">>))
     ELSE IF IsSubstr(<<"v","e","r","s","u","s">>, topicLower)
     THEN StripNonEmpty(SplitOn(topicLower, <<" ","v","e","r","s","u","s"," ">>))
     ELSE StripNonEmpty(SplitOn(
            Strip(Slice(topic, Find(topicLower, compare) + Len(compare), Len(topic))),
            <<" ","a","n","d"," ">>))

\* _search_knowledge_for_entities, lines 528-542: the score of one article
\* for one entity, 0 when the article is not considered
EntityScore(entity, a) ==
  LET entityLower == Lower(entity)
      titleLower == Lower(a.title)
      words == Split(entityLower)
      score == Cardinality({k \in 1..Len(words) : IsSubstr(words[k], titleLower)})
  IN IF a.hasTitle /\ (IsSubstr(entityLower, titleLower) \/ score > 0) THEN score ELSE 0

\* _search_knowledge_for_entities: the index of best_match for one entity, 0 for None
RECURSIVE EntityLoop(_, _, _, _)
EntityLoop(entity, articles, i, best) ==
  IF i > Len(articles) THEN best[1]
  ELSE IF EntityScore(entity, articles[i]) > best[2]
       THEN EntityLoop(entity, articles, i + 1, <<i, EntityScore(entity, articles[i])>>)
       ELSE EntityLoop(entity, articles, i + 1, best)

EntityInfoLimit == 1000   \* best_match['content'][:1000]

\* ComparativeReasoningStrategy.analyze, lines 547-600: the comparison of
\* the first two terms; best_match['content'] raises KeyError for a record
\* without content; with fewer than two terms the function returns None
ComparativeAnalyze(knowledge, q) ==
  LET topicLower == Lower(q)
      terms == ComparisonTerms(q)
      articles == IF knowledge.hasArticles THEN knowledge.articles ELSE <<>>
      match == [k \in 1..Len(terms) |-> EntityLoop(terms[k], articles, 1, <<0, 0>>)]
      bad == {k \in 1..Len(terms) : match[k] # 0 /\ ~articles[match[k]].hasContent}
      info(k) == IF match[k] = 0 THEN [found |-> FALSE, text |-> <<>>]
                 ELSE [found |-> TRUE,
                       text |-> Slice(articles[match[k]].content, 0,
                                      Min({Len(articles[match[k]].content), EntityInfoLimit}))]
      \* entity_info is keyed by the term: a later equal term overwrites
      last(k) == Max({j \in 1..Len(terms) : terms[j] = terms[k]})
  IN IF \/ IsSubstr(<<"v","s">>, topicLower)
        \/ IsSubstr(<<"v","e","r","s","u","s">>, topicLower)
        \/ IsSubstr(<<"c","o","m","p","a","r","e">>, topicLower)
     THEN IF Len(terms) >= 2
          THEN IF bad # {}
               THEN [NoResult EXCEPT !.kind = "error", !.strategy = "comparative",
                                     !.idx = match[Min(bad)], !.exc = "KeyError"]
               ELSE [NoResult EXCEPT !.kind = "comparative", !.template = "ANALYSIS",
                                     !.terms = <<Upper(terms[1]), Upper(terms[2])>>,
                                     !.info = <<info(last(1)), info(last(2))>>]
          ELSE [NoResult EXCEPT !.kind = "None", !.strategy = "comparative"]
     ELSE [NoResult EXCEPT !.kind = "comparative", !.template = "SUMMARY",
                           !.terms = EntityTexts(topicLower, 1)]

Init ==
  /\ corpus \in Corpora
  /\ pc = "idle"
  /\ query = <<>>
  /\ ran = <<>>
  /\ exactScores = <<>>
  /\ exactBest = 0
  /\ relaxedScores = <<>>
  /\ relaxedMatch = 0
  /\ fuzzyScores = <<>>
  /\ fuzzyMatch = 0
  /\ result = NoResult
  /\ seen = NotSeen
  /\ files = NoFiles
  /\ lpc = "idle"
  /\ knowledge_data = EmptyDict
  /\ up = FALSE
  /\ kb = EmptyDict
  /\ loadedFrom = NoFiles
  /\ loadedKb = EmptyDict
  /\ probe = NoProbe
  /\ rpc = "saved"
  /\ knowledge_base = <<>>
  /\ crawled_articles = {}
  /\ cache = NoCache
  /\ crawl_stats = NoStats
  /\ session_contexts = [s \in SessionIds |-> NoContext]
  /\ conversation_memory = [s \in SessionIds |-> [exists |-> FALSE, entries |-> <<>>]]
  /\ calls = [s \in SessionIds |-> 0]
  /\ reply = NoReply
  /\ conversations = [s \in SessionIds |-> [exists |-> FALSE, messages |-> <<>>]]
  /\ cpc = "idle"
  /\ chatReply = NoChatReply
  /\ requests = 0

\* analyze, lines 257-275: the call starts; `if articles:` guards EXACT and RELAXED
Submit(q) ==
  /\ pc = "idle"
  /\ query' = q
  /\ pc' = IF corpus # <<>> THEN "exact" ELSE "template"
  /\ UNCHANGED <<corpus, ran, exactScores, exactBest, relaxedScores, relaxedMatch,
                 fuzzyScores, fuzzyMatch, result, seen>>
  /\ UNCHANGED <<agentVars, crawlVars, sessionVars, serverVars>>

\* variant of ExactEligible: the test for 'title' is left out
ExactEligibleNoTitleCheck(a) == a.hasContent

\* analyze, line 281: the records the EXACT loop scores
ExactEligible(a) == a.hasTitle /\ a.hasContent

\* variant of ExactTakes: the first record with a positive score is kept
ExactTakesFirstHit(score, bestScore) == bestScore = RInt(0) /\ RLess(bestScore, score)

\* analyze, line 323: if score > best_score
ExactTakes(score, bestScore) == RLess(bestScore, score)

\* analyze, lines 277-326: the loop; best is <<index of best_match, best_score>>
RECURSIVE ExactLoop(_, _, _)
ExactLoop(scores, i, best) ==
  IF i > Len(scores) THEN best
  ELSE IF scores[i] # Skipped /\ ExactTakes(scores[i], best[2])
       THEN ExactLoop(scores, i + 1, <<i, scores[i]>>)
       ELSE ExactLoop(scores, i + 1, best)

\* variants of ExactConfident: EXACT never returns; EXACT returns any best match
ExactConfidentNever(best) == FALSE
ExactConfidentAny(best) == best[1] # 0

\* analyze, line 331: if best_match and best_score >= 10
ExactConfident(best) == best[1] # 0 /\ RLeq(RInt(ConfidentThreshold), best[2])

\* variant of ExactReportRaises: best_match['title'] without the guard
ExactReportSubscriptsNone(best) == best[1] = 0

\* analyze, line 328: best_match['title'] if best_match else 'None' never
\* subscripts None
ExactReportRaises(best) == FALSE

\* the index of the first record a loop subscripts without the key being there
FirstBad(bad) == IF bad = {} THEN 0 ELSE CHOOSE i \in bad : \A j \in bad : i <= j

HasTitle(a) == a.hasTitle
HasBoth(a) == a.hasTitle /\ a.hasContent

\* analyze, lines 275-333: state EXACT
ExactSearch ==
  /\ pc = "exact"
  /\ \E queryLower \in {Lower(query)} :
     \E bad \in {FirstBad({i \in 1..Len(corpus) : ExactEligible(corpus[i]) /\ ~HasBoth(corpus[i])})} :
     \E scores \in {List([i \in 1..Len(corpus) |->
                      IF ExactEligible(corpus[i]) /\ bad = 0
                      THEN ExactScore(queryLower, corpus[i])
                      ELSE Skipped])} :
     \E best \in {ExactLoop(scores, 1, <<0, RInt(0)>>)} :
        /\ exactScores' = scores
        /\ exactBest' = best[1]
        /\ ran' = Append(ran, "exact")
        /\ IF bad # 0
           THEN result' = KeyError("exact", bad) /\ pc' = "done"
           ELSE IF ExactReportRaises(best)
           THEN result' = [NoResult EXCEPT !.kind = "error", !.strategy = "exact",
                                           !.exc = "TypeError"]
                /\ pc' = "done"
           ELSE IF ExactConfident(best)
           THEN result' = ArticleResult("exact", best[1]) /\ pc' = "done"
           ELSE result' = result /\ pc' = "relaxed"
  /\ UNCHANGED <<corpus, query, relaxedScores, relaxedMatch, fuzzyScores, fuzzyMatch, seen>>
  /\ UNCHANGED <<agentVars, crawlVars, sessionVars, serverVars>>

\* _relaxed_search, line 204: the records the RELAXED loop scores
RelaxedEligible(a) == a.hasTitle

\* _relaxed_search, line 220: if score > best_score and score > 2
RelaxedTakes(score, bestScore) == score > bestScore /\ score > RelaxedBar

\* _relaxed_search, lines 199-224: the loop; best is <<index of best_match, best_score>>
RECURSIVE RelaxedLoop(_, _, _)
RelaxedLoop(scores, i, best) ==
  IF i > Len(scores) THEN best
  ELSE IF scores[i] # Skipped /\ RelaxedTakes(scores[i][1], best[2])
       THEN RelaxedLoop(scores, i + 1, <<i, scores[i][1]>>)
       ELSE RelaxedLoop(scores, i + 1, best)

\* analyze, lines 335-340: state RELAXED
RelaxedSearch ==
  /\ pc = "relaxed"
  /\ \E queryLower \in {Lower(query)} :
     \E bad \in {FirstBad({i \in 1..Len(corpus) : RelaxedEligible(corpus[i]) /\ ~HasTitle(corpus[i])})} :
     \E scores \in {List([i \in 1..Len(corpus) |->
                      IF RelaxedEligible(corpus[i]) /\ bad = 0
                      THEN RInt(RelaxedScore(queryLower, corpus[i]))
                      ELSE Skipped])} :
     \E best \in {RelaxedLoop(scores, 1, <<0, 0>>)} :
        /\ relaxedScores' = scores
        /\ relaxedMatch' = best[1]
        /\ ran' = Append(ran, "relaxed")
        /\ IF bad # 0
           THEN result' = KeyError("relaxed", bad) /\ pc' = "done"
           ELSE IF best[1] # 0
           THEN result' = ArticleResult("relaxed", best[1]) /\ pc' = "done"
           ELSE result' = result /\ pc' = "template"
  /\ UNCHANGED <<corpus, query, exactScores, exactBest, fuzzyScores, fuzzyMatch, seen>>
  /\ UNCHANGED <<agentVars, crawlVars, sessionVars, serverVars>>

\* analyze, lines 342-447: the hardcoded responses
HardcodedFallback ==
  /\ pc = "template"
  /\ ran' = Append(ran, "template")
  /\ IF HardcodedTemplate(query) # ""
     THEN /\ result' = [NoResult EXCEPT !.kind = "template",
                                        !.template = HardcodedTemplate(query)]
          /\ pc' = "done"
     ELSE result' = result /\ pc' = "fuzzy"
  /\ UNCHANGED <<corpus, query, exactScores, exactBest, relaxedScores, relaxedMatch,
                 fuzzyScores, fuzzyMatch, seen>>
  /\ UNCHANGED <<agentVars, crawlVars, sessionVars, serverVars>>

\* _fuzzy_fallback_search, line 236: the records the FUZZY loop scores
FuzzyEligible(a) == a.hasTitle

\* variant of FuzzyTakes: >= in place of >, the last of equal scores is kept
FuzzyTakesLast(score, bestScore) == RLeq(bestScore, score) /\ RLess(FuzzyBar, score)

\* _fuzzy_fallback_search, line 251: if score > best_score and score > 0.5
FuzzyTakes(score, bestScore) == RLess(bestScore, score) /\ RLess(FuzzyBar, score)

\* _fuzzy_fallback_search, lines 231-255: the loop
RECURSIVE FuzzyLoop(_, _, _)
FuzzyLoop(scores, i, best) ==
  IF i > Len(scores) THEN best
  ELSE IF scores[i] # Skipped /\ FuzzyTakes(scores[i], best[2])
       THEN FuzzyLoop(scores, i + 1, <<i, scores[i]>>)
       ELSE FuzzyLoop(scores, i + 1, best)

\* analyze, lines 449-452: state FUZZY
FuzzySearch ==
  /\ pc = "fuzzy"
  /\ \E queryLower \in {Lower(query)} :
     \E bad \in {FirstBad({i \in 1..Len(corpus) : FuzzyEligible(corpus[i]) /\ ~HasTitle(corpus[i])})} :
     \E scores \in {List([i \in 1..Len(corpus) |->
                      IF FuzzyEligible(corpus[i]) /\ bad = 0
                      THEN FuzzyScore(queryLower, corpus[i])
                      ELSE Skipped])} :
     \E best \in {FuzzyLoop(scores, 1, <<0, RInt(0)>>)} :
        /\ fuzzyScores' = scores
        /\ fuzzyMatch' = best[1]
        /\ ran' = Append(ran, "fuzzy")
        /\ IF bad # 0
           THEN result' = KeyError("fuzzy", bad) /\ pc' = "done"
           ELSE IF best[1] # 0
           THEN result' = ArticleResult("fuzzy", best[1]) /\ pc' = "done"
           ELSE result' = result /\ pc' = "generic"
  /\ UNCHANGED <<corpus, query, exactScores, exactBest, relaxedScores, relaxedMatch, seen>>
  /\ UNCHANGED <<agentVars, crawlVars, sessionVars, serverVars>>

\* analyze, lines 479-498: random.choice(humor_responses[category]), c the choice
HumorResponse(h, c, q) ==
  [NoResult EXCEPT !.kind = "humor", !.category = HumorCategories[h].name,
                   !.choice = c, !.entity = MainEntity(q)]

\* variant of GenericResponse: the final fallback answers with articles[0]
GenericResponseFirstArticle(q) ==
  IF corpus = <<>>
  THEN [NoResult EXCEPT !.kind = "error", !.strategy = "generic", !.exc = "IndexError"]
  ELSE ArticleResult("generic", 1)

\* analyze, lines 500-515: the final fallback text about main_entity
GenericResponse(q) == [NoResult EXCEPT !.kind = "generic", !.entity = MainEntity(q)]

\* analyze, lines 454-515: the humor response (random.choice) or the final fallback
GenericFallback ==
  /\ pc = "generic"
  /\ ran' = Append(ran, "generic")
  /\ \E h \in {HumorCategory(query)} :
       IF h # 0
       THEN \E c \in 1..HumorCategories[h].responses : result' = HumorResponse(h, c, query)
       ELSE result' = GenericResponse(query)
  /\ pc' = "done"
  /\ UNCHANGED <<corpus, query, exactScores, exactBest, relaxedScores, relaxedMatch,
                 fuzzyScores, fuzzyMatch, seen>>
  /\ UNCHANGED <<agentVars, crawlVars, sessionVars, serverVars>>

\* analyze returns; the call may be the one remembered
Return ==
  /\ pc = "done"
  /\ pc' = "idle"
  /\ seen' \in (IF seen.set THEN {seen}
                ELSE {seen, [set |-> TRUE, q |-> query, r |-> result]})
  /\ query' = <<>>
  /\ ran' = <<>>
  /\ exactScores' = <<>>
  /\ exactBest' = 0
  /\ relaxedScores' = <<>>
  /\ relaxedMatch' = 0
  /\ fuzzyScores' = <<>>
  /\ fuzzyMatch' = 0
  /\ result' = NoResult
  /\ UNCHANGED corpus
  /\ UNCHANGED <<agentVars, crawlVars, sessionVars, serverVars>>

Next ==
  \/ \E q \in Queries : Submit(q)
  \/ ExactSearch
  \/ RelaxedSearch
  \/ HardcodedFallback
  \/ FuzzySearch
  \/ GenericFallback
  \/ Return

Spec == Init /\ [][Next]_vars

\* analyze over corpora whose titles and contents hold domain terms
BoostInit ==
  /\ corpus \in BoostCorpora
  /\ pc = "idle"
  /\ query = <<>>
  /\ ran = <<>>
  /\ exactScores = <<>>
  /\ exactBest = 0
  /\ relaxedScores = <<>>
  /\ relaxedMatch = 0
  /\ fuzzyScores = <<>>
  /\ fuzzyMatch = 0
  /\ result = NoResult
  /\ seen = NotSeen
  /\ files = NoFiles
  /\ lpc = "idle"
  /\ knowledge_data = EmptyDict
  /\ up = FALSE
  /\ kb = EmptyDict
  /\ loadedFrom = NoFiles
  /\ loadedKb = EmptyDict
  /\ probe = NoProbe
  /\ rpc = "saved"
  /\ knowledge_base = <<>>
  /\ crawled_articles = {}
  /\ cache = NoCache
  /\ crawl_stats = NoStats
  /\ session_contexts = [s \in SessionIds |-> NoContext]
  /\ conversation_memory = [s \in SessionIds |-> [exists |-> FALSE, entries |-> <<>>]]
  /\ calls = [s \in SessionIds |-> 0]
  /\ reply = NoReply
  /\ conversations = [s \in SessionIds |-> [exists |-> FALSE, messages |-> <<>>]]
  /\ cpc = "idle"
  /\ chatReply = NoChatReply
  /\ requests = 0

BoostNext ==
  \/ \E q \in BoostQueries : Submit(q)
  \/ ExactSearch
  \/ RelaxedSearch
  \/ HardcodedFallback
  \/ FuzzySearch
  \/ GenericFallback
  \/ Return

BoostSpec == BoostInit /\ [][BoostNext]_vars

----------------------------------------------------------------------------
(* ReasoningPipeline.execute_reasoning, ContextManager and the dict that   *)
(* process_query returns                                                   *)

RecentTopics == 2   \* context.get_recent_context(2)

\* variant of AnalysisConfidence: a response that is no article counts less
AnalysisConfidenceByMatch(analysis) ==
  IF analysis.kind = "article" THEN <<4, 5>> ELSE <<1, 2>>

\* execute_reasoning, line 663: add_step("logical_analysis", analysis, 0.8)
AnalysisConfidence(analysis) == <<4, 5>>

\* _validate_reasoning, lines 714-719: completeness * 0.9
ValidateReasoning(steps) ==
  LET required_steps == {"knowledge_retrieval", "logical_analysis", "synthesis"}
      present == {steps[k].type : k \in 1..Len(steps)}
  IN Rat(Cardinality(required_steps \cap present) * 9, Cardinality(required_steps) * 10)

RECURSIVE SumConfidence(_, _)
SumConfidence(steps, k) ==
  IF k > Len(steps) THEN RInt(0)
  ELSE RAdd(steps[k].confidence, SumConfidence(steps, k + 1))

\* execute_reasoning, lines 652-675: the chain; analysis is what
\* strategy.analyze returned and sources the _sources_found of the knowledge
ExecuteReasoning(analysis, sources) ==
  LET \* add_step("knowledge_retrieval", f"Found {n} relevant sources", 0.9)
      retrieval == [type |-> "knowledge_retrieval",
                    content |-> [NoStepContent EXCEPT !.sources = sources],
                    confidence |-> <<9, 10>>]
      logical == [type |-> "logical_analysis",
                  content |-> [NoStepContent EXCEPT !.analysis = analysis],
                  confidence |-> AnalysisConfidence(analysis)]
      \* add_step("synthesis", synthesis, 0.85)
      synthesis == [type |-> "synthesis",
                    content |-> [NoStepContent EXCEPT !.analysis = analysis],
                    confidence |-> <<17, 20>>]
      upTo3 == <<retrieval, logical, synthesis>>
      score == ValidateReasoning(upTo3)
      steps == Append(upTo3, [type |-> "validation",
                              content |-> [NoStepContent EXCEPT !.score = score],
                              confidence |-> score])
  IN [steps |-> steps,
      overall_confidence |-> Rat(SumConfidence(steps, 1)[1],
                                 SumConfidence(steps, 1)[2] * Len(steps))]

\* integrate_context, lines 749-759, on the context of the session: the
\* chain gets a context_integration step when the session has a history,
\* and the query and the chain are appended to the two histories
IntegrateContext(chain, context, q) ==
  LET history == context.conversation_history
      \* get_recent_context(2): conversation_history[-2:]
      recent == SubSeq(history, Max({1, Len(history) - RecentTopics + 1}), Len(history))
      \* add_step("context_integration", f"Previous context: ...", 0.7)
      enhanced ==
        IF Len(context.reasoning_history) > 0
        THEN [chain EXCEPT !.steps =
                Append(@, [type |-> "context_integration",
                           content |-> [NoStepContent EXCEPT !.topics = recent],
                           confidence |-> <<7, 10>>])]
        ELSE chain
  IN [chain |-> enhanced,
      context |-> [exists |-> TRUE,
                   conversation_history |-> Append(context.conversation_history, q),
                   reasoning_history |->
                     Append(context.reasoning_history,
                            [steps |-> [k \in 1..Len(enhanced.steps) |-> enhanced.steps[k].type],
                             overall_confidence |-> enhanced.overall_confidence])]]

\* variant of FinalAnswer: the content of the last step that is a synthesis
\* or a context_integration
FinalAnswerLastStep(steps) ==
  LET last == {k \in 1..Len(steps) : steps[k].type \in {"synthesis", "context_integration"}}
  IN IF last = {} THEN NoStepContent ELSE steps[Max(last)].content

\* get_final_answer: the content of the last synthesis step
FinalAnswer(steps) ==
  LET synthesis == {k \in 1..Len(steps) : steps[k].type = "synthesis"}
  IN IF synthesis = {} THEN NoStepContent ELSE steps[Max(synthesis)].content

----------------------------------------------------------------------------
(* EnhancedReasoningAgent: the load of the knowledge base and process_query *)

\* the agent before __init__ has run, with the knowledge files as they are
AgentInit ==
  /\ corpus = <<>>
  /\ pc = "idle"
  /\ query = <<>>
  /\ ran = <<>>
  /\ exactScores = <<>>
  /\ exactBest = 0
  /\ relaxedScores = <<>>
  /\ relaxedMatch = 0
  /\ fuzzyScores = <<>>
  /\ fuzzyMatch = 0
  /\ result = NoResult
  /\ seen = NotSeen
  /\ files \in FileStates
  /\ lpc = "idle"
  /\ knowledge_data = EmptyDict
  /\ up = FALSE
  /\ kb = EmptyDict
  /\ loadedFrom = NoFiles
  /\ loadedKb = EmptyDict
  /\ probe = NoProbe
  /\ rpc = "saved"
  /\ knowledge_base = <<>>
  /\ crawled_articles = {}
  /\ cache = NoCache
  /\ crawl_stats = NoStats
  /\ session_contexts = [s \in SessionIds |-> NoContext]
  /\ conversation_memory = [s \in SessionIds |-> [exists |-> FALSE, entries |-> <<>>]]
  /\ calls = [s \in SessionIds |-> 0]
  /\ reply = NoReply
  /\ conversations = [s \in SessionIds |-> [exists |-> FALSE, messages |-> <<>>]]
  /\ cpc = "idle"
  /\ chatReply = NoChatReply
  /\ requests = 0

\* variant of Served: the loader fills self.knowledge_base in place
ServedInPlace(published, local) == local

\* _load_knowledge_base, line 816: the loader fills the local knowledge_data;
\* the dict self.knowledge_base refers to is not touched while the load runs
Served(published, local) == published

\* the ingestion pipeline rewrites the knowledge files, between two loads
WriteFiles(f) ==
  /\ up
  /\ lpc = "idle"
  /\ f # files
  /\ files' = f
  /\ UNCHANGED <<analyzeVars, lpc, knowledge_data, up, kb, loadedFrom, loadedKb, probe>>
  /\ UNCHANGED <<crawlVars, sessionVars, serverVars>>

\* __init__, line 812: _load_knowledge_base is entered (line 816)
Construct ==
  /\ ~up
  /\ lpc = "idle"
  /\ lpc' = "robotics"
  /\ knowledge_data' = EmptyDict
  /\ kb' = Served(kb, knowledge_data')
  /\ UNCHANGED <<analyzeVars, files, up, loadedFrom, loadedKb, probe>>
  /\ UNCHANGED <<crawlVars, sessionVars, serverVars>>

\* a reload: the load of line 812 is run again while queries are served
Reload ==
  /\ up
  /\ lpc = "idle"
  /\ lpc' = "robotics"
  /\ knowledge_data' = EmptyDict
  /\ kb' = Served(kb, knowledge_data')
  /\ UNCHANGED <<analyzeVars, files, up, loadedFrom, loadedKb, probe>>
  /\ UNCHANGED <<crawlVars, sessionVars, serverVars>>

\* _load_knowledge_base, lines 819-840: the robotics file
ReadRobotics ==
  /\ lpc = "robotics"
  /\ IF Raises(files.robotics)
     THEN lpc' = "fallback" /\ knowledge_data' = knowledge_data
     ELSE lpc' = "ethics" /\ knowledge_data' = MergeSource(knowledge_data, files.robotics)
  /\ kb' = Served(kb, knowledge_data')
  /\ UNCHANGED <<analyzeVars, files, up, loadedFrom, loadedKb, probe>>
  /\ UNCHANGED <<crawlVars, sessionVars, serverVars>>

\* _load_knowledge_base, lines 842-860: the ethics file
ReadEthics ==
  /\ lpc = "ethics"
  /\ IF Raises(files.ethics)
     THEN lpc' = "fallback" /\ knowledge_data' = knowledge_data
     ELSE lpc' = "return" /\ knowledge_data' = MergeSource(knowledge_data, files.ethics)
  /\ kb' = Served(kb, knowledge_data')
  /\ UNCHANGED <<analyzeVars, files, up, loadedFrom, loadedKb, probe>>
  /\ UNCHANGED <<crawlVars, sessionVars, serverVars>>

\* _load_knowledge_base, lines 862-901: knowledge_data or the fallback is
\* returned, and line 812 assigns it to self.knowledge_base
Finish ==
  /\ lpc \in {"return", "fallback"}
  /\ \E value \in {IF lpc = "return" /\ Truthy(knowledge_data)
                   THEN knowledge_data ELSE FallbackKnowledge} :
       /\ kb' = value
       /\ loadedKb' = value
  /\ loadedFrom' = files
  /\ up' = TRUE
  /\ lpc' = "idle"
  /\ knowledge_data' = EmptyDict
  /\ probe' = [probe EXCEPT !.fresh = FALSE]
  /\ UNCHANGED <<analyzeVars, files>>
  /\ UNCHANGED <<crawlVars, sessionVars, serverVars>>

\* process_query, lines 1006-1011, execute_reasoning, lines 652-663, and
\* the start of strategy.analyze: _retrieve_knowledge stores found_sources
\* in the knowledge base; FactualReasoningStrategy.analyze takes its
\* articles (lines 257-275), the two other strategies answer at once
ProcessQuery(q, session_id) ==
  /\ up
  /\ pc = "idle"
  /\ query' = q
  /\ calls' = [calls EXCEPT ![session_id] = @ + 1]
  /\ \E found \in {FoundSources(Lower(q), kb, 1)} :
       /\ kb' = WithSourcesFound(kb, found)
       /\ reply' = [NoReply EXCEPT !.session_id = session_id, !.query = q, !.sources = found]
  /\ \E strategy \in {Strategies(ClassifyIntent(q))} :
       IF strategy = "Factual"
       THEN /\ corpus' = AnalyzeArticles(kb)
            /\ pc' = IF corpus' # <<>> THEN "exact" ELSE "template"
            /\ result' = result
       ELSE /\ corpus' = <<>>
            /\ pc' = "done"
            /\ result' = IF strategy = "Analytical" THEN AnalyticalAnalyze(q)
                          ELSE ComparativeAnalyze(kb, q)
  /\ UNCHANGED <<ran, exactScores, exactBest, relaxedScores, relaxedMatch,
                 fuzzyScores, fuzzyMatch, seen>>
  /\ UNCHANGED <<files, lpc, knowledge_data, up, loadedFrom, loadedKb, probe>>
  /\ UNCHANGED <<session_contexts, conversation_memory>>
  /\ UNCHANGED crawlVars

\* process_query, lines 1013-1035, once execute_reasoning has returned its
\* chain: the context of the session is integrated and the conversation
\* memory is appended; a None response raises TypeError in
\* _assess_response_quality (line 1021), between the two
Answer(chain, analysis) ==
  \E ic \in {IntegrateContext(chain, session_contexts[reply.session_id], query)} :
    /\ session_contexts' = [session_contexts EXCEPT ![reply.session_id] = ic.context]
    /\ IF analysis.kind = "None"
       THEN /\ conversation_memory' = conversation_memory
            /\ reply' = [reply EXCEPT !.set = TRUE, !.raised = TRUE]
       ELSE /\ conversation_memory' =
                 [conversation_memory EXCEPT ![reply.session_id] =
                    [exists |-> TRUE,
                     entries |-> Append(@.entries, [query |-> query,
                                                    intent |-> ClassifyIntent(query)])]]
            /\ reply' = [reply EXCEPT
                          !.set = TRUE,
                          !.response = FinalAnswer(ic.chain.steps),
                          !.steps = [k \in 1..Len(ic.chain.steps) |-> ic.chain.steps[k].type],
                          !.confidence = ic.chain.overall_confidence,
                          !.intent = ClassifyIntent(query),
                          !.session_context = Len(ic.context.conversation_history),
                          !.conversation_turn =
                            Len(conversation_memory'[reply.session_id].entries)]

\* process_query returns or raises (lines 1010-1050): an exception of
\* strategy.analyze leaves execute_reasoning before any history is touched;
\* a call that ran on the knowledge base now served may be the one remembered
AgentReturn ==
  /\ pc = "done"
  /\ pc' = "idle"
  /\ IF result.kind = "error"
     THEN /\ reply' = [reply EXCEPT !.set = TRUE, !.raised = TRUE]
          /\ UNCHANGED <<session_contexts, conversation_memory>>
     ELSE Answer(ExecuteReasoning(result, reply.sources), result)
  /\ probe' \in (IF probe.set \/ corpus # AnalyzeArticles(kb) THEN {probe}
                 ELSE {probe, [set |-> TRUE, fresh |-> TRUE, q |-> query,
                               r |-> result, from |-> loadedFrom]})
  /\ query' = <<>>
  /\ ran' = <<>>
  /\ exactScores' = <<>>
  /\ exactBest' = 0
  /\ relaxedScores' = <<>>
  /\ relaxedMatch' = 0
  /\ fuzzyScores' = <<>>
  /\ fuzzyMatch' = 0
  /\ result' = NoResult
  /\ UNCHANGED <<corpus, seen, calls>>
  /\ UNCHANGED <<files, lpc, knowledge_data, up, kb, loadedFrom, loadedKb>>
  /\ UNCHANGED crawlVars

MaxTurns == 2   \* most process_query calls made

AgentNext ==
  \/ Construct
  \/ ReadRobotics
  \/ ReadEthics
  \/ Finish
  \/ \E q \in AgentQueries :
       /\ calls["default"] + calls["web-session"] < MaxTurns
       /\ ProcessQuery(q, "default")
       /\ UNCHANGED serverVars
  \/ ExactSearch
  \/ RelaxedSearch
  \/ HardcodedFallback
  \/ FuzzySearch
  \/ GenericFallback
  \/ AgentReturn /\ UNCHANGED serverVars

AgentSpec == AgentInit /\ [][AgentNext]_vars

\* the agent with reloads: the files change and are loaded again while
\* queries are served
ReloadInit ==
  /\ AgentInit
  /\ files \in ReloadFiles

ReloadNext ==
  \/ AgentNext
  \/ Reload
  \/ \E f \in ReloadFiles : WriteFiles(f)

ReloadSpec == ReloadInit /\ [][ReloadNext]_vars

\* the agent serving the queries of two sessions
SessionInit ==
  /\ corpus = <<>>
  /\ pc = "idle"
  /\ query = <<>>
  /\ ran = <<>>
  /\ exactScores = <<>>
  /\ exactBest = 0
  /\ relaxedScores = <<>>
  /\ relaxedMatch = 0
  /\ fuzzyScores = <<>>
  /\ fuzzyMatch = 0
  /\ result = NoResult
  /\ seen = NotSeen
  /\ files \in SessionFiles
  /\ lpc = "idle"
  /\ knowledge_data = EmptyDict
  /\ up = FALSE
  /\ kb = EmptyDict
  /\ loadedFrom = NoFiles
  /\ loadedKb = EmptyDict
  /\ probe = NoProbe
  /\ rpc = "saved"
  /\ knowledge_base = <<>>
  /\ crawled_articles = {}
  /\ cache = NoCache
  /\ crawl_stats = NoStats
  /\ session_contexts = [s \in SessionIds |-> NoContext]
  /\ conversation_memory = [s \in SessionIds |-> [exists |-> FALSE, entries |-> <<>>]]
  /\ calls = [s \in SessionIds |-> 0]
  /\ reply = NoReply
  /\ conversations = [s \in SessionIds |-> [exists |-> FALSE, messages |-> <<>>]]
  /\ cpc = "idle"
  /\ chatReply = NoChatReply
  /\ requests = 0

SessionNext ==
  \/ Construct
  \/ ReadRobotics
  \/ ReadEthics
  \/ Finish
  \/ \E q \in SessionQueries : \E session_id \in SessionIds :
       /\ calls["default"] + calls["web-session"] < MaxTurns
       /\ ProcessQuery(q, session_id)
       /\ UNCHANGED serverVars
  \/ ExactSearch
  \/ RelaxedSearch
  \/ HardcodedFallback
  \/ FuzzySearch
  \/ GenericFallback
  \/ AgentReturn /\ UNCHANGED serverVars

SessionSpec == SessionInit /\ [][SessionNext]_vars

----------------------------------------------------------------------------
(* src/server.py: chat and the conversations of the sessions               *)

\* validate_ethical_content, lines 54-57: harmful_patterns
HarmfulPatterns == {
  <<"h","o","w"," ","t","o"," ","b","u","i","l","d"," ","w","e","a","p","o","n","s">>,
  <<"c","r","e","a","t","e"," ","e","x","p","l","o","s","i","v","e","s">>,
  <<"h","a","r","m"," ","h","u","m","a","n","s">>,
  <<"i","l","l","e","g","a","l"," ","a","c","t","i","v","i","t","i","e","s">>,
  <<"d","i","s","c","r","i","m","i","n","a","t","e"," ","a","g","a","i","n","s","t">>,
  <<"h","a","t","e"," ","s","p","e","e","c","h">>,
  <<"v","i","o","l","e","n","c","e">>,
  <<"s","e","l","f","-","h","a","r","m">> }

\* variant of ValidateEthicalContent: only the first pattern is looked for
ValidateFirstPattern(topic) ==
  [is_safe |-> ~IsSubstr(<<"h","o","w"," ","t","o"," ","b","u","i","l","d"," ","w","e","a","p","o","n","s">>, Lower(topic))]

\* validate_ethical_content, lines 48-80: is_safe, which depends on the
\* topic only
ValidateEthicalContent(topic) ==
  [is_safe |-> {p \in HarmfulPatterns : IsSubstr(p, Lower(topic))} = {}]

MaxHistory == 10   \* if len(conversations[session_id]) > 10

MaxRequests == 6   \* most chat requests made

\* request.message of the chat requests
ChatMessages == {
  <<"R","o","b","o","t">>,          \* "Robot"
  <<"v","i","o","l","e","n","c","e">>,          \* "violence"
  <<"v","i","o","l","e","n","c","e"," ","v","s">> }         \* "violence vs"

\* chat, lines 1110-1143, and lines 1145-1164 when reasoning_agent is None:
\* the user message is appended, the history is cut to its last 10 messages
\* and process_query is called; without an agent generate_response writes
\* the text (its wording is not modelled) and the request is answered at once
Chat(message, session_id) ==
  /\ cpc = "idle"
  /\ requests' = requests + 1
  /\ \E history \in {Append(conversations[session_id].messages,
                             [role |-> "user", content |-> message, kind |-> "none",
                              response |-> NoStepContent])} :
     \E kept \in {IF Len(history) > MaxHistory
                  THEN SubSeq(history, Len(history) - MaxHistory + 1, Len(history))
                  ELSE history} :
       IF lpc = "unavailable"
       THEN \E kind \in {IF ValidateEthicalContent(message).is_safe
                          THEN "builtin" ELSE "refusal"} :
              /\ conversations' =
                   [conversations EXCEPT ![session_id] =
                      [exists |-> TRUE,
                       messages |-> Append(kept, [role |-> "assistant", content |-> <<>>,
                                                  kind |-> kind, response |-> NoStepContent])]]
              /\ chatReply' = [NoChatReply EXCEPT !.set = TRUE, !.session = session_id,
                                                  !.message = message, !.kind = kind]
              /\ cpc' = "idle"
              /\ UNCHANGED <<analyzeVars, agentVars, crawlVars, sessionVars>>
       ELSE /\ conversations' =
                 [conversations EXCEPT ![session_id] = [exists |-> TRUE, messages |-> kept]]
            /\ chatReply' = [NoChatReply EXCEPT !.session = session_id, !.message = message]
            /\ cpc' = "agent"
            /\ ProcessQuery(message, session_id)

\* chat, lines 1143-1213, once process_query has returned or raised: an
\* exception leaves chat; otherwise the response, or the refusal for a
\* message that is not safe, is appended to the history and returned
ChatRespond ==
  /\ cpc = "agent"
  /\ AgentReturn
  /\ cpc' = "idle"
  /\ requests' = requests
  /\ IF reply'.raised
     THEN /\ conversations' = conversations
          /\ chatReply' = [chatReply EXCEPT !.set = TRUE, !.raised = TRUE]
     ELSE \E text \in {IF ~ValidateEthicalContent(chatReply.message).is_safe
                        THEN [kind |-> "refusal", response |-> NoStepContent]
                        ELSE IF reply'.response = NoStepContent
                        THEN [kind |-> "apology", response |-> NoStepContent]
                        ELSE [kind |-> "generated", response |-> reply'.response]} :
            /\ conversations' =
                 [conversations EXCEPT ![chatReply.session].messages =
                    Append(@, [role |-> "assistant", content |-> <<>>,
                               kind |-> text.kind, response |-> text.response])]
            /\ chatReply' = [chatReply EXCEPT !.set = TRUE, !.kind = text.kind,
                                              !.response = text.response]

\* the server at import: the agent is constructed from the knowledge files,
\* or reasoning_agent is None because the import failed (lines 10-16, 36-45)
ChatInit ==
  /\ corpus = <<>>
  /\ pc = "idle"
  /\ query = <<>>
  /\ ran = <<>>
  /\ exactScores = <<>>
  /\ exactBest = 0
  /\ relaxedScores = <<>>
  /\ relaxedMatch = 0
  /\ fuzzyScores = <<>>
  /\ fuzzyMatch = 0
  /\ result = NoResult
  /\ seen = NotSeen
  /\ files \in SessionFiles
  /\ lpc \in {"idle", "unavailable"}
  /\ knowledge_data = EmptyDict
  /\ up = FALSE
  /\ kb = EmptyDict
  /\ loadedFrom = NoFiles
  /\ loadedKb = EmptyDict
  /\ probe = NoProbe
  /\ rpc = "saved"
  /\ knowledge_base = <<>>
  /\ crawled_articles = {}
  /\ cache = NoCache
  /\ crawl_stats = NoStats
  /\ session_contexts = [s \in SessionIds |-> NoContext]
  /\ conversation_memory = [s \in SessionIds |-> [exists |-> FALSE, entries |-> <<>>]]
  /\ calls = [s \in SessionIds |-> 0]
  /\ reply = NoReply
  /\ conversations = [s \in SessionIds |-> [exists |-> FALSE, messages |-> <<>>]]
  /\ cpc = "idle"
  /\ chatReply = NoChatReply
  /\ requests = 0

ChatNext ==
  \/ Construct
  \/ ReadRobotics
  \/ ReadEthics
  \/ Finish
  \/ \E message \in ChatMessages : requests < MaxRequests /\ Chat(message, "web-session")
  \/ ExactSearch
  \/ RelaxedSearch
  \/ HardcodedFallback
  \/ FuzzySearch
  \/ GenericFallback
  \/ ChatRespond

ChatSpec == ChatInit /\ [][ChatNext]_vars

----------------------------------------------------------------------------
(* EnhancedWikipediaCrawler: crawl_article, load_external_ethics, the      *)
(* saved knowledge base and the incremental run of main                    *)

\* a crawler run that has started in full mode, nothing cached
CrawlInit ==
  /\ corpus = <<>>
  /\ pc = "idle"
  /\ query = <<>>
  /\ ran = <<>>
  /\ exactScores = <<>>
  /\ exactBest = 0
  /\ relaxedScores = <<>>
  /\ relaxedMatch = 0
  /\ fuzzyScores = <<>>
  /\ fuzzyMatch = 0
  /\ result = NoResult
  /\ seen = NotSeen
  /\ files \in [robotics : {Missing}, ethics : CrawlEthicsFiles]
  /\ lpc = "idle"
  /\ knowledge_data = EmptyDict
  /\ up = FALSE
  /\ kb = EmptyDict
  /\ loadedFrom = NoFiles
  /\ loadedKb = EmptyDict
  /\ probe = NoProbe
  /\ rpc = "running"
  /\ knowledge_base = <<>>
  /\ crawled_articles = {}
  /\ cache = NoCache
  /\ crawl_stats = NoStats
  /\ session_contexts = [s \in SessionIds |-> NoContext]
  /\ conversation_memory = [s \in SessionIds |-> [exists |-> FALSE, entries |-> <<>>]]
  /\ calls = [s \in SessionIds |-> 0]
  /\ reply = NoReply
  /\ conversations = [s \in SessionIds |-> [exists |-> FALSE, messages |-> <<>>]]
  /\ cpc = "idle"
  /\ chatReply = NoChatReply
  /\ requests = 0

\* crawl_article, lines 803-818 and 840-858: article_data is appended
Appended(article_title, content, title, fromCache) ==
  /\ knowledge_base' = Append(knowledge_base, Entry(article_title, CleanContent(content), WikiUrl(title)))
  /\ crawled_articles' = crawled_articles \cup {title}
  /\ crawl_stats' = [crawl_stats EXCEPT !.articles_crawled = @ + 1,
                                        !.total_words = @ + Len(Split(content)),
                                        !.cache_hits = @ + (IF fromCache THEN 1 ELSE 0)]

\* crawl_article, line 828: `if not article_title or not content: return False`
Accepted(hasTitle, article_title, content) ==
  hasTitle /\ article_title # <<>> /\ content # <<>>

\* crawl_article, lines 783-859, with get_wikipedia_content, lines 311-361;
\* resp is the answer of the Wikipedia API, read when the cache has no valid entry
CrawlArticle(title, resp) ==
  /\ rpc = "running"
  /\ Len(knowledge_base) < MaxArticles
  /\ IF title \in crawled_articles
     THEN UNCHANGED <<knowledge_base, crawled_articles, cache, crawl_stats>>
     ELSE IF cache[title].state = "valid"
     THEN /\ cache' = cache
          /\ IF cache[title].hasTitle
             THEN Appended(cache[title].title, cache[title].content, title, TRUE)
             ELSE UNCHANGED <<knowledge_base, crawled_articles, crawl_stats>>
     ELSE IF ~resp.ok
     THEN UNCHANGED <<knowledge_base, crawled_articles, cache, crawl_stats>>
     ELSE \E content \in {CleanContent(resp.text)} :
            /\ cache' = [cache EXCEPT ![title] =
                           [state |-> "valid", hasTitle |-> resp.hasTitle,
                            title |-> resp.title, content |-> content]]
            /\ IF Accepted(resp.hasTitle, resp.title, content)
               THEN Appended(resp.title, content, title, FALSE)
               ELSE UNCHANGED <<knowledge_base, crawled_articles, crawl_stats>>
  /\ UNCHANGED <<analyzeVars, agentVars, rpc>>
  /\ UNCHANGED <<sessionVars, serverVars>>

\* _is_cache_valid, lines 260-267: a cache entry gets older than 8 hours
Expire(title) ==
  /\ cache[title].state = "valid"
  /\ cache' = [cache EXCEPT ![title].state = "expired"]
  /\ UNCHANGED <<analyzeVars, agentVars, rpc, knowledge_base, crawled_articles, crawl_stats>>
  /\ UNCHANGED <<sessionVars, serverVars>>

\* load_external_ethics, lines 1086-1112: the loop over the items; acc holds
\* the knowledge base, existing_titles, existing_urls, the statistics, and
\* whether an item raised (add_metadata_to_entry on a title that is None)
RECURSIVE MergeEthics(_, _, _)
MergeEthics(items, i, acc) ==
  IF i > Len(items) THEN acc
  ELSE LET item == items[i]
           title == Strip(item.title)
           url == Strip(item.url)
           key == Lower(title)
           raw == IF item.hasContent THEN item.content ELSE <<>>
           content == SubSeq(raw, 1, Min({Len(raw), EthicsContentLimit}))
       IN IF key \in acc.titles \/ (url # <<>> /\ url \in acc.urls)
          THEN MergeEthics(items, i + 1, acc)
          ELSE IF title = <<>> /\ ~item.hasTitle
          THEN [acc EXCEPT !.raised = TRUE]
          ELSE MergeEthics(items, i + 1,
                 [kb |-> Append(acc.kb, Entry(IF title # <<>> THEN title ELSE item.title,
                                              CleanContent(content),
                                              IF url # <<>> THEN url ELSE Unknown)),
                  titles |-> acc.titles \cup {key},
                  urls |-> IF url # <<>> THEN acc.urls \cup {url} ELSE acc.urls,
                  stats |-> [acc.stats EXCEPT !.articles_crawled = @ + 1,
                                              !.total_words = @ + Len(Split(raw))],
                  raised |-> FALSE])

\* load_external_ethics, lines 1066-1121: a missing file is skipped; a file
\* that is not a list of dicts raises and nothing is merged
LoadExternalEthics ==
  /\ rpc = "running"
  /\ Len(knowledge_base) + Len(files.ethics.records) <= MaxArticles
  /\ IF files.ethics.shape = "list"
     THEN \E acc \in {MergeEthics(files.ethics.records, 1,
                        [kb |-> knowledge_base,
                         titles |-> {Lower(Strip(knowledge_base[k].title)) : k \in 1..Len(knowledge_base)},
                         urls |-> {Strip(knowledge_base[k].url) : k \in 1..Len(knowledge_base)},
                         stats |-> crawl_stats,
                         raised |-> FALSE])} :
            /\ knowledge_base' = acc.kb
            /\ crawl_stats' = acc.stats
     ELSE UNCHANGED <<knowledge_base, crawl_stats>>
  /\ UNCHANGED <<analyzeVars, agentVars, rpc, crawled_articles, cache>>
  /\ UNCHANGED <<sessionVars, serverVars>>

\* save_knowledge_base, lines 1030-1064: json.dump(self.knowledge_base) into
\* data/enhanced_robotics_knowledge.json; the run ends
SaveKnowledgeBase ==
  /\ rpc = "running"
  /\ files' = [files EXCEPT !.robotics = FlatList(knowledge_base)]
  /\ rpc' = "saved"
  /\ UNCHANGED <<analyzeVars, lpc, knowledge_data, up, kb, loadedFrom, loadedKb, probe>>
  /\ UNCHANGED <<knowledge_base, crawled_articles, cache, crawl_stats>>
  /\ UNCHANGED <<sessionVars, serverVars>>

\* _load_existing_knowledge_base, lines 231-244
ExistingKnowledgeBase(file) ==
  IF file.shape \in {"list", "wrapper"} THEN file.records ELSE <<>>

\* main, lines 1149-1172: a new crawler; in incremental mode the saved
\* knowledge base is taken over and its titles are marked as crawled
NewRun(incremental) ==
  /\ rpc = "saved"
  /\ rpc' = "running"
  /\ \E existing \in {IF incremental THEN ExistingKnowledgeBase(files.robotics) ELSE <<>>} :
       /\ knowledge_base' = existing
       /\ crawled_articles' = {existing[k].title : k \in {j \in 1..Len(existing) : existing[j].hasTitle}}
  /\ crawl_stats' = NoStats
  /\ UNCHANGED <<analyzeVars, agentVars, cache>>
  /\ UNCHANGED <<sessionVars, serverVars>>
  /\ UNCHANGED <<sessionVars, serverVars>>

CrawlNext ==
  \/ \E title \in RequestTitles : \E resp \in Responses(title) : CrawlArticle(title, resp)
  \/ \E title \in RequestTitles : Expire(title)
  \/ LoadExternalEthics
  \/ SaveKnowledgeBase
  \/ \E incremental \in BOOLEAN : NewRun(incremental)

CrawlSpec == CrawlInit /\ [][CrawlNext]_vars

----------------------------------------------------------------------------
(* Properties of the retrieval cascade                                     *)

Ran(s) == \E i \in 1..Len(ran) : ran[i] = s

Searches == {"exact", "relaxed", "fuzzy"}

Rank(s) == CASE s = "exact" -> 1 [] s = "relaxed" -> 2 [] s = "fuzzy" -> 3

\* the responses that report absence
NotFoundKinds == {"template", "humor", "generic"}

Records == 1..Len(corpus)

\* C1: EXACT, RELAXED and FUZZY run in this order, each at most once; RELAXED
\* runs only after EXACT, and only when every EXACT score is below the
\* confident threshold; FUZZY runs only when RELAXED returned no article and,
\* on a corpus that is not empty, only after EXACT and RELAXED both ran
C1_CascadeOrder ==
  /\ \A i, j \in 1..Len(ran) :
       (i < j /\ ran[i] \in Searches /\ ran[j] \in Searches) => Rank(ran[i]) < Rank(ran[j])
  /\ Ran("relaxed") =>
       /\ ran[1] = "exact"
       /\ \A i \in Records :
            exactScores[i] # Skipped => RLess(exactScores[i], RInt(ConfidentThreshold))
  /\ Ran("fuzzy") =>
       /\ relaxedMatch = 0
       /\ corpus # <<>> => (Ran("exact") /\ Ran("relaxed"))
  /\ (pc = "done" /\ result.kind = "article") => ran[Len(ran)] = result.strategy

C1_Witness ==
  /\ pc = "done"
  /\ ran = <<"exact", "relaxed", "template", "fuzzy">>
  /\ result.kind = "article"
  /\ result.strategy = "fuzzy"

\* C2: when EXACT has run, every record with a title and a content carries
\* its full score; if some score reaches the confident threshold, the call is
\* over after EXACT alone and the article returned has the maximum score
C2_ExactReturnsMaximum ==
  /\ ran = <<"exact">> =>
       \A i \in Records :
         ExactEligible(corpus[i]) => exactScores[i] = ExactScore(Lower(query), corpus[i])
  /\ (/\ Ran("exact")
      /\ \E i \in Records : /\ ExactEligible(corpus[i])
                             /\ RLeq(RInt(ConfidentThreshold), exactScores[i])) =>
       /\ pc = "done"
       /\ ran = <<"exact">>
       /\ result.kind = "article"
       /\ result.strategy = "exact"
       /\ \A j \in Records :
            ExactEligible(corpus[j]) => RLeq(exactScores[j], exactScores[result.idx])

C2_Witness ==
  /\ pc = "done"
  /\ ran = <<"exact">>
  /\ Len(corpus) = 2
  /\ ExactEligible(corpus[1])
  /\ RLess(RInt(0), exactScores[1])
  /\ result.kind = "article"
  /\ result.idx = 2

\* the score of record i in the strategy that returned it clears that strategy's bar
ClearedBar(strategy, i) ==
  CASE strategy = "exact" ->
         RLeq(RInt(ConfidentThreshold), ExactScore(Lower(query), corpus[i]))
    [] strategy = "relaxed" -> RelaxedScore(Lower(query), corpus[i]) > RelaxedBar
    [] strategy = "fuzzy" -> RLess(FuzzyBar, FuzzyScore(Lower(query), corpus[i]))
    [] OTHER -> FALSE

\* no record clears the bar of any strategy
AllFailed ==
  \A i \in Records :
    /\ ExactEligible(corpus[i]) => ~ClearedBar("exact", i)
    /\ corpus[i].hasTitle => (~ClearedBar("relaxed", i) /\ ~ClearedBar("fuzzy", i))

\* C3: an article is returned only if its score cleared the bar of the
\* strategy that returned it; a call reports absence unless some record
\* clears a bar, so when no record clears any bar the call reports absence
C3_OnlyAboveBar ==
  pc = "done" =>
    /\ result.kind = "article" => ClearedBar(result.strategy, result.idx)
    /\ result.kind \notin NotFoundKinds => ~AllFailed

C3_Witness ==
  /\ pc = "done"
  /\ AllFailed
  /\ result.kind = "generic"
  /\ \E i \in Records : ExactEligible(corpus[i]) /\ RLess(RInt(0), exactScores[i])

Similar(x, y) == RLess(FuzzySimilarityBar, Ratio(x, y))

DomainTerms == Characters \o RoboticsTerms \o AiTerms \o Franchises

\* the query overlaps record a in some tier: the query is in the title, a
\* word of one is part of the other or similar to a word of it, the two are
\* similar as a whole, or they share a domain term
Overlaps(q, a) ==
  LET ql == Lower(q)
      tl == Lower(a.title)
      cl == Lower(a.content)
      qw == Split(ql)
      tw == Split(tl)
  IN /\ a.hasTitle
     /\ \/ IsSubstr(Strip(ql), tl)
        \/ Similar(ql, tl)
        \/ \E i \in 1..Len(qw) :
             \/ IsSubstr(qw[i], tl)
             \/ IsSubstr(qw[i], cl)
             \/ \E j \in 1..Len(tw) : IsSubstr(tw[j], qw[i]) \/ Similar(qw[i], tw[j])
        \/ \E k \in 1..Len(DomainTerms) :
             /\ IsSubstr(DomainTerms[k], ql)
             /\ IsSubstr(DomainTerms[k], tl) \/ IsSubstr(DomainTerms[k], cl)

\* C4: a call returns an article only if the query overlaps some record of
\* the corpus in some tier: when it overlaps none, the call reports absence
C4_GracefulDegradation ==
  (pc = "done" /\ result.kind \notin NotFoundKinds) =>
    \E i \in Records : Overlaps(query, corpus[i])

C4_Witness ==
  /\ pc = "done"
  /\ Len(corpus) = 2
  /\ \A i \in Records : ExactEligible(corpus[i]) /\ ~Overlaps(query, corpus[i])
  /\ Ran("fuzzy")
  /\ result.kind = "generic"

\* C5: a call with the query of the remembered call returns the remembered
\* result (the corpus never changes)
C5_Determinism ==
  (pc = "done" /\ seen.set /\ seen.q = query) => seen.r = result

\* C6: once EXACT has run, a record whose title contains the query scores at
\* least as much as a record whose title does not contain it and that has no
\* domain boost, when the two have the same exact-token, partial-token,
\* domain and content signals
C6_TitleDominance ==
  Ran("exact") =>
    \A i, j \in Records :
      (/\ ExactEligible(corpus[i])
       /\ ExactEligible(corpus[j])
       /\ IsSubstr(Strip(Lower(query)), Lower(corpus[i].title))
       /\ ~IsSubstr(Strip(Lower(query)), Lower(corpus[j].title))
       /\ LET A == ExactSignals(Lower(query), corpus[i])
              B == ExactSignals(Lower(query), corpus[j])
          IN /\ B.domain = 0
             /\ A.token = B.token
             /\ A.partial = B.partial
             /\ A.domain = B.domain
             /\ A.content = B.content)
      => RLeq(exactScores[j], exactScores[i])

\* the record selected by a loop has the maximum score and is the first with it
FirstOfMaximum(scores, selected) ==
  \A j \in 1..Len(scores) :
    scores[j] # Skipped =>
      /\ RLeq(scores[j], scores[selected])
      /\ scores[j] = scores[selected] => selected <= j

\* C7: in each of EXACT, RELAXED and FUZZY the record selected is the first,
\* in corpus order, of those with the maximum score
C7_FirstSeenTieBreak ==
  /\ exactBest # 0 => FirstOfMaximum(exactScores, exactBest)
  /\ relaxedMatch # 0 => FirstOfMaximum(relaxedScores, relaxedMatch)
  /\ fuzzyMatch # 0 => FirstOfMaximum(fuzzyScores, fuzzyMatch)

C7_Witness ==
  /\ pc = "done"
  /\ Len(corpus) = 2
  /\ exactBest = 1
  /\ exactScores[2] = exactScores[1]
  /\ fuzzyMatch = 1
  /\ fuzzyScores[2] = fuzzyScores[1]
  /\ result.kind = "article"
  /\ result.idx = 1

\* C8: a call over the empty corpus reports absence
C8_EmptyCorpus ==
  (corpus = <<>> /\ pc = "done") => result.kind \in NotFoundKinds

C8_Witness ==
  /\ corpus = <<>>
  /\ pc = "done"
  /\ ran = <<"template", "fuzzy", "generic">>
  /\ result.kind = "generic"

\* C9: a record without a title is scored by no strategy, selected by none
\* and the cause of no exception; of one record without a title and nine
\* valid records, nine are scored by each strategy
C9_TitlelessSkipped ==
  /\ \A i \in Records :
       ~corpus[i].hasTitle =>
         /\ Ran("exact") => exactScores[i] = Skipped
         /\ Ran("relaxed") => relaxedScores[i] = Skipped
         /\ Ran("fuzzy") => fuzzyScores[i] = Skipped
         /\ exactBest # i /\ relaxedMatch # i /\ fuzzyMatch # i
         /\ result.idx # i
  /\ corpus = TenRecords =>
       /\ Ran("exact") => Cardinality({i \in Records : exactScores[i] # Skipped}) = 9
       /\ Ran("relaxed") => Cardinality({i \in Records : relaxedScores[i] # Skipped}) = 9
       /\ Ran("fuzzy") => Cardinality({i \in Records : fuzzyScores[i] # Skipped}) = 9
       /\ result.kind # "error"

C9_Witness ==
  /\ corpus = TenRecords
  /\ pc = "done"
  /\ Ran("fuzzy")
  /\ result.kind = "article"

\* no strategy selected a record
NoMatch ==
  /\ ~(Ran("exact") /\ ExactConfident(<<exactBest,
          IF exactBest = 0 THEN RInt(0) ELSE exactScores[exactBest]>>))
  /\ relaxedMatch = 0
  /\ fuzzyMatch = 0

TierContribution == <<
  <<ExactPhraseBonus, ExactPhraseBonus>>,
  <<ExactTokenBonus, ExactTokenBonus>>,
  <<Min({CharacterBoost, DomainTermBoost, FranchiseBoost}),
    Max({CharacterBoost, DomainTermBoost, FranchiseBoost})>>,
  <<PartialTokenBonus, PartialTokenBonus>>,
  <<FuzzyScale, FuzzyScale>>,
  <<ContentBonus, ContentBonus>>,
  <<WildcardBonus, WildcardBonus>> >>

\* which tiers add something to the EXACT score of record a
TiersFired(q, a) ==
  LET s == ExactSignals(Lower(q), a)
      on == <<s.phrase > 0, s.token > 0, s.domain > 0, s.partial > 0,
              RLess(RInt(0), s.fuzzy), s.content > 0, s.wildcard > 0>>
  IN {t \in 1..Len(on) : on[t]}

\* C16: one match of a lower tier adds less than one match of every higher
\* tier, the tiers being exact phrase > exact token > domain boost > partial
\* token > fuzzy > content overlap > wildcard; stated of every signal that
\* adds to a score in EXACT
C16_TierOrdering ==
  Ran("exact") =>
    \A i \in Records :
      ExactEligible(corpus[i]) =>
        \A lo \in TiersFired(query, corpus[i]) :
          \A hi \in 1..(lo - 1) : TierContribution[lo][2] < TierContribution[hi][1]

\* C17: in EXACT the partial-token signal of a record counts the pairs of a
\* query token and a title word where one is part of the other and both are
\* longer than 3 characters, and nothing else
C17_PartialGuard ==
  Ran("exact") =>
    \A i \in Records :
      ExactEligible(corpus[i]) =>
        LET qw == QueryWords(Lower(query))
            tw == Split(Lower(corpus[i].title))
        IN ExactSignals(Lower(query), corpus[i]).partial
             = PartialTokenBonus
                 * Cardinality({p \in (1..Len(qw)) \X (1..Len(tw)) :
                      /\ Len(qw[p[1]]) > MinPartialLen
                      /\ Len(tw[p[2]]) > MinPartialLen
                      /\ \/ IsSubstr(qw[p[1]], tw[p[2]])
                         \/ IsSubstr(tw[p[2]], qw[p[1]])})

\* every whitespace-separated token of the query has at most 2 characters
OnlyShortTokens(q) == \A i \in 1..Len(Split(q)) : Len(Split(q)[i]) <= MinWordLen

\* C18: for a query of tokens of at most 2 characters, only the exact-phrase
\* signal and the content signal add to the EXACT score of a record
C18_ShortTokensOnlyPhraseAndContent ==
  (Ran("exact") /\ OnlyShortTokens(Lower(query))) =>
    \A i \in Records :
      ExactEligible(corpus[i]) =>
        LET s == ExactSignals(Lower(query), corpus[i])
        IN /\ s.token = 0
           /\ s.partial = 0
           /\ s.domain = 0
           /\ s.fuzzy = RInt(0)
           /\ s.wildcard = 0

\* C19: a hardcoded template response is produced only after FUZZY has run
\* (and found nothing), the steps being taken in the order exact, relaxed,
\* fuzzy, hardcoded template, generic
C19_TemplateAfterFuzzy ==
  (pc = "done" /\ result.kind = "template") => (Ran("fuzzy") /\ fuzzyMatch = 0)

\* the EXACT score of record a when signal 5 is added only below the fuzzy
\* gate and signal 7 only below the wildcard gate
GatedScore(q, a) ==
  LET ql == Lower(q)
      tl == Lower(a.title)
      s == ExactSignals(ql, a)
      upTo4 == s.phrase + s.token + s.partial + s.domain
      fuzzy == IF upTo4 < FuzzyGate THEN RMul(Ratio(ql, tl), FuzzyScale) ELSE RInt(0)
      upTo6 == RAdd(RInt(upTo4 + s.content), fuzzy)
      wildcard == IF RLess(upTo6, RInt(WildcardGate))
                  THEN WildcardBonus * WildcardMatch(QueryWords(ql), tl)
                  ELSE 0
  IN RAdd(upTo6, RInt(wildcard))

\* C21: in the EXACT score of a record the fuzzy title similarity is counted
\* only if signals 1-4 sum to less than 20, and the wildcard signal only if
\* the score after the content signal is less than 10
C21_GatedSignals ==
  Ran("exact") =>
    \A i \in Records :
      exactScores[i] # Skipped => exactScores[i] = GatedScore(query, corpus[i])

\* EXACT has scored a record for which both gates are closed although its
\* title is similar to the query and matches it as a wildcard
C21_Witness ==
  /\ Ran("exact")
  /\ \E i \in Records :
       /\ exactScores[i] # Skipped
       /\ LET s == ExactSignals(Lower(query), corpus[i])
          IN /\ s.phrase + s.token + s.partial + s.domain >= FuzzyGate
             /\ RLess(RInt(0), Ratio(Lower(query), Lower(corpus[i].title)))
             /\ WildcardMatch(QueryWords(Lower(query)), Lower(corpus[i].title)) > 0
             /\ s.fuzzy = RInt(0)
             /\ s.wildcard = 0

\* the keyword groups of the domain boost and what a match of each adds
KeywordGroups == <<
  [terms |-> Characters, boost |-> CharacterBoost],
  [terms |-> Franchises, boost |-> FranchiseBoost],
  [terms |-> RoboticsTerms, boost |-> DomainTermBoost],
  [terms |-> AiTerms, boost |-> DomainTermBoost] >>

\* text[:500]
Head500(text) == Slice(text, 0, Min({Len(text), ContentHead}))

\* C22: the domain boost of a record is added exactly when a query token and
\* the title or the first 500 characters of the content belong to the same
\* keyword group: a query token that is a term of a group and occurs in the
\* title or the content head earns at least the boost of that group; a boost
\* is added only if a term of some group occurs in the query and a term of
\* the same group in the title or the content head; a character name adds
\* more (25) than a franchise (20), a franchise more than a domain term (15)
C22_DomainBoost ==
  /\ CharacterBoost > FranchiseBoost /\ FranchiseBoost > DomainTermBoost
  /\ Ran("exact") =>
       \A i \in Records :
         ExactEligible(corpus[i]) =>
           LET ql == Lower(query)
               tl == Lower(corpus[i].title)
               head == Head500(Lower(corpus[i].content))
               in(t) == IsSubstr(t, tl) \/ IsSubstr(t, head)
               boost == GetDomainBoost(ql, tl, Lower(corpus[i].content))
           IN /\ \A g \in 1..Len(KeywordGroups) :
                   \A k \in 1..Len(KeywordGroups[g].terms) :
                     (InList(KeywordGroups[g].terms[k], Split(ql)) /\ in(KeywordGroups[g].terms[k]))
                       => boost >= KeywordGroups[g].boost
              /\ boost > 0 =>
                   \E g \in 1..Len(KeywordGroups) :
                     \E k1, k2 \in 1..Len(KeywordGroups[g].terms) :
                       IsSubstr(KeywordGroups[g].terms[k1], ql) /\ in(KeywordGroups[g].terms[k2])

----------------------------------------------------------------------------
(* The load of the knowledge base                                          *)

\* a source that is unreadable or is not structured data (a list or a dict)
Unloadable(src) == src.shape \in {"invalid", "scalar"}

\* C11: a load whose source is unreadable or is not valid structured data
\* fails (CorpusLoadError): the agent never serves a knowledge base that
\* was put in the place of such a source
C11_LoadFailsLoudly ==
  (up /\ lpc = "idle") =>
    ~(Unloadable(loadedFrom.robotics) \/ Unloadable(loadedFrom.ethics))

\* the same records as a flat list
Flat(src) == IF src.shape = "wrapper" THEN FlatList(src.records) ELSE src

\* C12: the articles searched after a load are the ones searched when every
\* {"articles": [...]} wrapper of the source is given as a flat list instead
C12_ShapeEquivalence ==
  (up /\ lpc = "idle") =>
    AnalyzeArticles(kb) =
      AnalyzeArticles(LoadKnowledgeBase([robotics |-> Flat(loadedFrom.robotics),
                                         ethics |-> Flat(loadedFrom.ethics)]))

\* C13: the knowledge base served is the one the load assigned: no key or
\* article is created, changed or removed by process_query
C13_StoreNeverWritten == up => kb = loadedKb

\* the articles a completed load of the files f publishes
FullSnapshot(f) == AnalyzeArticles(LoadKnowledgeBase(f))

\* C14: a query takes its articles from the old snapshot in full or from the
\* new snapshot in full, and keeps them until it returns, whatever the
\* reload does meanwhile
C14_AtomicSwap ==
  [][/\ (pc = "idle" /\ pc' # "idle") =>
          corpus' \in (IF lpc = "idle" THEN {FullSnapshot(loadedFrom)}
                       ELSE {FullSnapshot(loadedFrom), FullSnapshot(files)})
     /\ (pc # "idle" /\ pc' # "idle") => corpus' = corpus]_vars

\* a query is in flight on the old snapshot while a reload of changed files
\* has read the robotics file
C14_Witness ==
  /\ up
  /\ lpc = "ethics"
  /\ pc \in {"exact", "relaxed", "fuzzy"}
  /\ FullSnapshot(files) # FullSnapshot(loadedFrom)
  /\ AnalyzeArticles(knowledge_data) # FullSnapshot(files)
  /\ corpus = FullSnapshot(loadedFrom)

\* C15: a probe query answered before a reload of the identical source gets
\* the same answer after it
C15_IdempotentReload ==
  (/\ pc = "done"
   /\ probe.set
   /\ ~probe.fresh
   /\ probe.q = query
   /\ probe.from = loadedFrom
   /\ corpus = AnalyzeArticles(kb)) => probe.r = result

----------------------------------------------------------------------------
(* The knowledge base of the crawler                                       *)

\* C20: every article of the crawler's knowledge base, and of the knowledge
\* file it saves for the engine, has a title that is not empty
C20_TitlesNonEmpty ==
  /\ \A k \in 1..Len(knowledge_base) :
       knowledge_base[k].hasTitle /\ knowledge_base[k].title # <<>>
  /\ \A k \in 1..Len(files.robotics.records) :
       files.robotics.records[k].hasTitle /\ files.robotics.records[k].title # <<>>

----------------------------------------------------------------------------
(* process_query: strategies, sessions and confidence                      *)

\* C24: the three strategies consider the same records: a record that
\* RELAXED or FUZZY scored was scored by EXACT too, and no call raises
\* KeyError for a selected record without a content
C24_SameRecords ==
  /\ \A i \in Records :
       /\ (Ran("relaxed") /\ relaxedScores[i] # Skipped) => exactScores[i] # Skipped
       /\ (Ran("fuzzy") /\ fuzzyScores[i] # Skipped) => exactScores[i] # Skipped
  /\ result.exc # "KeyError"

\* the sources that a load of the files f has read as a list or as an
\* {"articles": [...]} wrapper; the ethics file is read after the robotics file
ReadAsArticles(f) ==
  {src \in {f.robotics} : src.shape \in {"list", "wrapper"}}
    \cup {src \in {f.ethics} : src.shape \in {"list", "wrapper"} /\ ~Raises(f.robotics)}

\* C26: after a load, the articles searched hold every record of every
\* source that was read successfully, whatever the shape of the other source
\* and whether or not the other source could be parsed
C26_NothingDropped ==
  (up /\ lpc = "idle") =>
    \A src \in ReadAsArticles(loadedFrom) :
      \A k \in 1..Len(src.records) :
        \E j \in 1..Len(AnalyzeArticles(kb)) : AnalyzeArticles(kb)[j] = src.records[k]

\* C27: the k-th call of a session returns session_context k and
\* conversation_turn k, and the two histories of a session have one length
C27_TurnsCounted ==
  /\ (reply.set /\ ~reply.raised) =>
       /\ reply.session_context = calls[reply.session_id]
       /\ reply.conversation_turn = calls[reply.session_id]
  /\ \A s \in SessionIds :
       Len(session_contexts[s].conversation_history) = Len(session_contexts[s].reasoning_history)

\* a response without the joke that random.choice picked
Plain(response) == [response EXCEPT !.analysis.choice = 0]

\* C28: a call changes the context and the conversation memory of its own
\* session only, and its response is the one the same query got on the same
\* knowledge base whatever the histories were
C28_SessionIsolation ==
  /\ [][\A s \in SessionIds :
          (session_contexts'[s] # session_contexts[s]
             \/ conversation_memory'[s] # conversation_memory[s]) => s = reply.session_id]_vars
  /\ []((reply.set /\ ~reply.raised /\ probe.set /\ probe.q = reply.query) =>
          Plain(reply.response) = Plain([NoStepContent EXCEPT !.analysis = probe.r]))

\* a call has returned the response of a query that was answered before,
\* while the other session has a context and a conversation memory
C28_Witness ==
  /\ reply.set /\ ~reply.raised
  /\ reply.response.analysis.kind = "article"
  /\ probe.set /\ probe.q = reply.query
  /\ \E s \in SessionIds :
       /\ s # reply.session_id
       /\ Len(session_contexts[s].conversation_history) = 1
       /\ Len(conversation_memory[s].entries) = 1

C25_BoundedHistory ==
  cpc = "idle" => \A s \in SessionIds : Len(conversations[s].messages) <= MaxHistory

\* the message contains one of the harmful patterns
Harmful(message) == \E p \in HarmfulPatterns : IsSubstr(p, Lower(message))

\* C30: a chat request whose message contains a harmful pattern returns the
\* refusal, and the assistant message that answers such a message in the
\* history is the refusal, never the generated text
C30_HarmfulRefused ==
  /\ (chatReply.set /\ ~chatReply.raised /\ Harmful(chatReply.message)) =>
       /\ chatReply.kind = "refusal"
       /\ LET messages == conversations[chatReply.session].messages
          IN /\ messages # <<>>
             /\ messages[Len(messages)].role = "assistant"
             /\ messages[Len(messages)].kind = "refusal"
  /\ \A s \in SessionIds :
       LET messages == conversations[s].messages
       IN \A k \in 2..Len(messages) :
            (/\ messages[k].role = "assistant"
             /\ messages[k - 1].role = "user"
             /\ Harmful(messages[k - 1].content)) => messages[k].kind = "refusal"

\* the agent has answered a harmful message with a text, and chat has
\* returned the refusal in its place
C30_Witness ==
  /\ chatReply.set /\ ~chatReply.raised
  /\ Harmful(chatReply.message)
  /\ reply.set /\ reply.query = chatReply.message
  /\ reply.response.analysis.kind = "generic"
  /\ chatReply.kind = "refusal"

\* C23: whatever the intent of the query, process_query takes the articles
\* of the knowledge base and scores every one of them that has a title and
\* a content (the retrieval cascade is run for every query)
C23_CascadeForEveryQuery ==
  (up /\ pc = "done") =>
    /\ corpus = AnalyzeArticles(kb)
    /\ corpus # <<>> =>
         /\ Ran("exact")
         /\ \A i \in Records : ExactEligible(corpus[i]) => exactScores[i] # Skipped

====
